---- MODULE Spec2Model ----
(***************************************************************************)
(* State-machine model of the fastcs-secop node session:                   *)
(*   SecopController (connect / check_idn / deactivate / initialise /      *)
(*   ping), SecopModuleController.initialise (the schema mapper) and the   *)
(*   attribute IO (update / send), running as cooperative tasks over one   *)
(*   shared connection to a SECoP node.                                    *)
(*                                                                         *)
(* A wire line is a sequence of tokens; a JSON text is a token that names  *)
(* a document, and JsonLoads maps the token to the parsed document or to   *)
(* a decode error.                                                         *)
(***************************************************************************)
EXTENDS Integers, Sequences, FiniteSets, TLC

\* ------------------------------------------------------------------ bounds
\* number of concurrently running attribute poll tasks
NumPollTasks == 1

\* the largest max_description_length the quirks are given
MaxDescLimit == 3

\* ------------------------------------------------------------- wire lines
NL == "\n"
SP == " "

Whitespace == {SP, NL}

RECURSIVE LStrip(_)
LStrip(s) ==
    IF s # <<>> /\ Head(s) \in Whitespace THEN LStrip(Tail(s)) ELSE s

RECURSIVE RStrip(_)
RStrip(s) ==
    IF s # <<>> /\ s[Len(s)] \in Whitespace
    THEN RStrip(SubSeq(s, 1, Len(s) - 1))
    ELSE s

\* str.strip()
Strip(s) == RStrip(LStrip(s))

\* str.startswith(prefix)
StartsWith(s, prefix) ==
    /\ Len(s) >= Len(prefix)
    /\ SubSeq(s, 1, Len(prefix)) = prefix

\* s[len(prefix):]
AfterPrefix(s, prefix) == SubSeq(s, Len(prefix) + 1, Len(s))

\* str.split(sep): the fields between the separator tokens
RECURSIVE SplitAcc(_, _, _)
SplitAcc(s, sep, cur) ==
    IF s = <<>> THEN <<cur>>
    ELSE IF Head(s) = sep THEN <<cur>> \o SplitAcc(Tail(s), sep, <<>>)
    ELSE SplitAcc(Tail(s), sep, Append(cur, Head(s)))

Split(s, sep) == SplitAcc(s, sep, <<>>)

\* ------------------------------------------------------------- exceptions
NoError == [type |-> "none", what |-> ""]

Raise(type, what) == [type |-> type, what |-> what]

\* ------------------------------------------------------------------ quirks
\* SecopQuirks: the fields the mapper and the node controller consult
\* an optional integer (int | None): None, or the integer in a 1-tuple
None == <<>>

Some(n) == <<n>>

MkQuirks(skipM, skipA, rawA, rArray, rTuple, rStruct) ==
    [ skip_modules           |-> skipM,
      skip_accessibles       |-> skipA,
      raw_accessibles        |-> rawA,
      raw_array              |-> rArray,
      raw_tuple              |-> rTuple,
      raw_struct             |-> rStruct,
      max_description_length |-> None,
      update_period          |-> 1 ]

DefaultQuirks == MkQuirks({}, {}, {}, FALSE, FALSE, FALSE)

\* the quirks values a node controller is constructed with
QuirksChoices ==
    { DefaultQuirks,
      MkQuirks({"m2"}, {}, {}, FALSE, FALSE, FALSE),
      MkQuirks({}, {}, {}, FALSE, FALSE, TRUE) }

\* ------------------------------------------------- description documents
\* the description tree the node serves as the document "doc_node"
VARIABLE nodeModules

\* the call of a function of the package that is being followed on its
\* own: its arguments and, stage by stage, what it returned or raised
VARIABLE fn

\* an accessible of a parsed description: members lists the member types of
\* an array (one entry), tuple or struct; readonly is "absent" and
\* has_description is FALSE when the descriptor lacks the key; description is
\* the sequence of the characters of the text
AccD(name, type, readonly, members, hasDescription, description) ==
    [ name |-> name, type |-> type, readonly |-> readonly, members |-> members,
      has_description |-> hasDescription, description |-> description,
      scale |-> IF type = "scaled" THEN Some(1) ELSE None,
      min |-> None, max |-> None, fmtstr |-> None,
      values |-> IF type = "enum" THEN {1, 2} ELSE {} ]

\* the accessible with the numeric keys of its datainfo set: scale, min and
\* max are None or Some(number), fmtstr None or Some(characters)
WithNumeric(acc, scale, min, max, fmtstr) ==
    [ acc EXCEPT !.scale = scale, !.min = min, !.max = max, !.fmtstr = fmtstr ]

Acc(name, type, readonly, members) ==
    AccD(name, type, readonly, members, TRUE, <<"d">>)

Mod(name, accessibles) == [ name |-> name, accessibles |-> accessibles ]

ModGoodOne ==
    Mod("m1", << Acc("p", "double", "false", <<>>),
                 Acc("q", "int", "true", <<>>) >>)

ModGoodTwo ==
    Mod("m2", << Acc("s", "struct", "absent", <<"double", "int">>),
                 Acc("c", "command", "absent", <<>>) >>)

ModBadTwo ==
    Mod("m2", << Acc("s", "struct", "absent", <<"double", "int">>),
                 Acc("w", "weird", "absent", <<>>) >>)

ModNested ==
    Mod("m1", << Acc("a", "array", "false", <<"array">>) >>)

AllKeys == {"description", "equipment_id", "modules"}

\* json.loads: the document a JSON text parses to; wf is FALSE for a text
\* that is not JSON (json.JSONDecodeError)
JsonLoads(text) ==
    CASE text = "doc_good"     -> [ wf |-> TRUE, keys |-> AllKeys,
                                    modules |-> <<ModGoodOne, ModGoodTwo>> ]
      [] text = "doc_bad2"     -> [ wf |-> TRUE, keys |-> AllKeys,
                                    modules |-> <<ModGoodOne, ModBadTwo>> ]
      [] text = "doc_nested"   -> [ wf |-> TRUE, keys |-> AllKeys,
                                    modules |-> <<ModNested, ModGoodTwo>> ]
      [] text = "doc_noequip"  -> [ wf |-> TRUE, keys |-> {"description", "modules"},
                                    modules |-> <<ModGoodOne>> ]
      [] text = "doc_node"     -> [ wf |-> TRUE, keys |-> AllKeys,
                                    modules |-> nodeModules ]
      [] OTHER                 -> [ wf |-> FALSE, keys |-> {}, modules |-> <<>> ]

NoDoc == [ wf |-> FALSE, keys |-> {}, modules |-> <<>> ]

\* ------------------------------------------------------------ Python values
\* A value of the interpreter is a record tagged py; a JSON text is the
\* document it spells, a record tagged json.  Numbers are whole; a str is
\* the sequence of its characters.
PyNone == [ py |-> "None" ]
PyNum(n) == [ py |-> "number", num |-> n ]
PyBool(b) == [ py |-> "bool", bool |-> b ]
PyStr(s) == [ py |-> "str", str |-> s ]
PyBytes(bs) == [ py |-> "bytes", bytes |-> bs ]
PyList(xs) == [ py |-> "list", list |-> xs ]
PyTuple(xs) == [ py |-> "tuple", tuple |-> xs ]
PyDict(ks, vs) == [ py |-> "dict", keys |-> ks, vals |-> vs ]
\* a member of the enum.Enum class made from datainfo["members"]
PyEnum(n) == [ py |-> "enum", member |-> n ]
\* numpy.ndarray of a scalar dtype: ndim 0 or 1; items hold the elements as
\* tolist() returns them
NdArray(dtype, ndim, items) ==
    [ py |-> "ndarray", fields |-> << dtype >>, structured |-> FALSE,
      ndim |-> ndim, items |-> items ]

\* numpy.ndarray of a structured dtype with the given field dtypes, of one
\* dimension; an item is the tuple of the fields of a record
NdRecords(fields, items) ==
    [ py |-> "ndarray", fields |-> fields, structured |-> TRUE,
      ndim |-> 1, items |-> items ]

JNull == [ json |-> "null" ]
JNum(n) == [ json |-> "number", jnum |-> n ]
JBool(b) == [ json |-> "bool", jbool |-> b ]
JStr(s) == [ json |-> "string", jstr |-> s ]
JArr(xs) == [ json |-> "array", jarr |-> xs ]
JObj(ks, vs) == [ json |-> "object", jkeys |-> ks, jvals |-> vs ]

\* the result of a call: the exception it raised, or the value it returned
Ok(v) == [ err |-> NoError, value |-> v ]
Raised(type, what) == [ err |-> Raise(type, what), value |-> PyNone ]

\* json.dumps(obj): the JSON text of obj
RECURSIVE json_dumps(_)
json_dumps(obj) ==
    CASE obj.py = "None"   -> Ok(JNull)
      [] obj.py = "number" -> Ok(JNum(obj.num))
      [] obj.py = "bool"   -> Ok(JBool(obj.bool))
      [] obj.py = "str"    -> Ok(JStr(obj.str))
      [] obj.py \in {"list", "tuple"} ->
            LET xs == IF obj.py = "list" THEN obj.list ELSE obj.tuple
                ds == [ i \in 1..Len(xs) |-> json_dumps(xs[i]) ] IN
            IF \E i \in 1..Len(xs) : ds[i].err # NoError
            THEN Raised("TypeError", "not JSON serializable")
            ELSE Ok(JArr([ i \in 1..Len(xs) |-> ds[i].value ]))
      [] obj.py = "dict"   ->
            LET ds == [ i \in 1..Len(obj.vals) |-> json_dumps(obj.vals[i]) ] IN
            IF \E i \in 1..Len(obj.vals) : ds[i].err # NoError
            THEN Raised("TypeError", "not JSON serializable")
            ELSE Ok(JObj(obj.keys, [ i \in 1..Len(obj.vals) |-> ds[i].value ]))
      [] OTHER -> Raised("TypeError", "not JSON serializable")

\* json.loads(s) of a well-formed JSON text
RECURSIVE json_loads(_)
json_loads(doc) ==
    CASE doc.json = "null"   -> PyNone
      [] doc.json = "number" -> PyNum(doc.jnum)
      [] doc.json = "bool"   -> PyBool(doc.jbool)
      [] doc.json = "string" -> PyStr(doc.jstr)
      [] doc.json = "array"  ->
            PyList([ i \in 1..Len(doc.jarr) |-> json_loads(doc.jarr[i]) ])
      [] doc.json = "object" ->
            PyDict(doc.jkeys, [ i \in 1..Len(doc.jvals) |-> json_loads(doc.jvals[i]) ])

\* value, *_ = obj: the first element of an iterable
Unpack(obj) ==
    CASE obj.py = "list" ->
            IF obj.list = <<>> THEN Raised("ValueError", "not enough values to unpack")
            ELSE Ok(obj.list[1])
      [] obj.py = "tuple" ->
            IF obj.tuple = <<>> THEN Raised("ValueError", "not enough values to unpack")
            ELSE Ok(obj.tuple[1])
      [] obj.py = "str" ->
            IF obj.str = <<>> THEN Raised("ValueError", "not enough values to unpack")
            ELSE Ok(PyStr(<< obj.str[1] >>))
      [] obj.py = "dict" ->
            IF obj.keys = <<>> THEN Raised("ValueError", "not enough values to unpack")
            ELSE Ok(PyStr(<< obj.keys[1] >>))
      [] OTHER -> Raised("TypeError", "cannot unpack non-iterable object")

\* variant of RoundDiv: the quotient is truncated
RoundDiv_truncates(v, s) ==
    IF s > 0 THEN v \div s ELSE (0 - v) \div (0 - s)

\* round(v / s) for s # 0: the nearest integer, a tie going to the even one
RoundDiv(v, s) ==
    LET n == IF s > 0 THEN v ELSE 0 - v
        d == IF s > 0 THEN s ELSE 0 - s
        q == n \div d
        r == n % d IN
    IF 2 * r < d THEN q
    ELSE IF 2 * r > d THEN q + 1
    ELSE IF q % 2 = 0 THEN q ELSE q + 1

\* sequence * n
RECURSIVE Repeat(_, _)
Repeat(s, n) == IF n <= 0 THEN <<>> ELSE s \o Repeat(s, n - 1)

\* what a stage of a followed call holds before the stage has run
NoCall == [ err |-> NoError, value |-> PyNone ]

\* no call is being followed
FnIdle == [ stage |-> "idle" ]

\* ----------------------------------------------------------- schema mapper
\* a numpy scalar dtype; chars is the width of a string dtype "<U{chars}"
NpDtype(name) == [ np |-> name, chars |-> 0 ]
NpStr(chars) == [ np |-> "U", chars |-> chars ]

\* the datainfo of a member that is described by its type alone
MemberInfo(type) == [ type |-> type, maxchars |-> None ]

\* variant of secop_dtype_to_numpy_dtype: the width of a string is 65536
\* whatever maxchars says
secop_dtype_to_numpy_dtype_fixedWidth(secop_datainfo) ==
    CASE secop_datainfo.type = "double" -> Ok(NpDtype("float64"))
      [] secop_datainfo.type = "int"    -> Ok(NpDtype("int32"))
      [] secop_datainfo.type = "bool"   -> Ok(NpDtype("uint8"))
      [] secop_datainfo.type = "enum"   -> Ok(NpDtype("int32"))
      [] secop_datainfo.type = "string" -> Ok(NpStr(65536))
      [] OTHER ->
            Raised("SecopError", "Cannot handle SECoP dtype within array/struct/tuple")

\* variant of secop_dtype_to_numpy_dtype: a scaled member is taken as a
\* 64-bit float
secop_dtype_to_numpy_dtype_scaledMember(secop_datainfo) ==
    CASE secop_datainfo.type \in {"double", "scaled"} -> Ok(NpDtype("float64"))
      [] secop_datainfo.type = "int"    -> Ok(NpDtype("int32"))
      [] secop_datainfo.type = "bool"   -> Ok(NpDtype("uint8"))
      [] secop_datainfo.type = "enum"   -> Ok(NpDtype("int32"))
      [] secop_datainfo.type = "string" ->
            Ok(NpStr(IF secop_datainfo.maxchars = None THEN 65536
                     ELSE secop_datainfo.maxchars[1]))
      [] OTHER ->
            Raised("SecopError", "Cannot handle SECoP dtype within array/struct/tuple")

\* secop_dtype_to_numpy_dtype
secop_dtype_to_numpy_dtype(secop_datainfo) ==
    CASE secop_datainfo.type = "double" -> Ok(NpDtype("float64"))
      [] secop_datainfo.type = "int"    -> Ok(NpDtype("int32"))
      [] secop_datainfo.type = "bool"   -> Ok(NpDtype("uint8"))
      [] secop_datainfo.type = "enum"   -> Ok(NpDtype("int32"))
      [] secop_datainfo.type = "string" ->
            Ok(NpStr(IF secop_datainfo.maxchars = None THEN 65536
                     ELSE secop_datainfo.maxchars[1]))
      [] OTHER ->
            Raised("SecopError", "Cannot handle SECoP dtype within array/struct/tuple")

\* tuple_structured_dtype / struct_structured_dtype: the dtype of every
\* member in turn; the first member that cannot be converted raises
structured_dtype(members) ==
    LET ds == [ i \in 1..Len(members) |-> secop_dtype_to_numpy_dtype(members[i]) ] IN
    IF \E i \in 1..Len(members) : ds[i].err # NoError
    THEN ds[CHOOSE i \in 1..Len(members) :
                /\ ds[i].err # NoError
                /\ \A j \in 1..(i - 1) : ds[j].err = NoError]
    ELSE Ok([ i \in 1..Len(members) |-> ds[i].value ])

structured_dtype_ok(members) ==
    structured_dtype([ i \in 1..Len(members) |-> MemberInfo(members[i]) ]).err = NoError

Min(a, b) == IF a <= b THEN a ELSE b

Max(a, b) == IF a >= b THEN a ELSE b

\* variant of SliceTo: the character at index stop is kept as well
SliceTo_inclusive(s, stop) ==
    IF stop = None THEN s
    ELSE SubSeq(s, 1, Min(stop[1] + 1, Len(s)))

\* s[:stop], the slice of Python: None keeps everything, a negative stop
\* counts from the end
SliceTo(s, stop) ==
    IF stop = None THEN s
    ELSE IF stop[1] >= 0 THEN SubSeq(s, 1, Min(stop[1], Len(s)))
    ELSE SubSeq(s, 1, Max(Len(s) + stop[1], 0))

\* parameter.get("description", "")[: self._quirks.max_description_length]
Description(acc, quirks) ==
    SliceTo(IF acc.has_description THEN acc.description ELSE <<>>,
            quirks.max_description_length)

DecimalDigits == << "0", "1", "2", "3", "4", "5", "6", "7", "8", "9" >>

DigitValue(c) == (CHOOSE i \in 1..10 : DecimalDigits[i] = c) - 1

RECURSIVE DigitsValue(_)
DigitsValue(ds) ==
    IF ds = <<>> THEN 0
    ELSE 10 * DigitsValue(SubSeq(ds, 1, Len(ds) - 1)) + DigitValue(ds[Len(ds)])

\* int(s) of a str: white space around it is dropped, a sign may lead, and
\* single underscores may separate the digits
IntOfStr(s) ==
    LET t == Strip(s)
        signed == t # <<>> /\ t[1] \in {"+", "-"}
        body == IF signed THEN Tail(t) ELSE t
        digits == SelectSeq(body, LAMBDA c : c # "_")
        n == DigitsValue(digits) IN
    IF /\ body # <<>>
       /\ \A i \in 1..Len(body) : body[i] \in { DecimalDigits[j] : j \in 1..10 } \cup {"_"}
       /\ body[1] # "_"
       /\ body[Len(body)] # "_"
       /\ \A i \in 1..(Len(body) - 1) : ~(body[i] = "_" /\ body[i + 1] = "_")
    THEN Ok(PyNum(IF signed /\ t[1] = "-" THEN 0 - n ELSE n))
    ELSE Raised("ValueError", "invalid literal for int() with base 10")

\* format_string_to_prec: fmt_str is None or Some(the characters)
format_string_to_prec(fmt_str) ==
    IF fmt_str = None THEN Ok(PyNone)
    ELSE LET s == fmt_str[1] IN
         IF StartsWith(s, << "%", "." >>) /\ s[Len(s)] = "f"
         THEN IntOfStr(SubSeq(s, 3, Len(s) - 1))
         ELSE Ok(PyNone)

\* x or 6
OrSix(x) == IF x.py = "None" \/ (x.py = "number" /\ x.num = 0) THEN PyNum(6) ELSE x

\* min_val *= scale, when both are given
Scaled(bound, scale) ==
    IF bound # None /\ scale # None THEN Some(bound[1] * scale[1]) ELSE bound

\* the datainfo dictionary an IO reference carries: scale is None when the
\* key is absent; members are the member datainfos of an array (one), a
\* tuple or a struct, keys the member names of a struct, values the values
\* of the members of an enum
Datainfo(type, scale, members, keys, values) ==
    [ type |-> type, scale |-> scale, members |-> members, keys |-> keys,
      values |-> values ]

NoDatainfo == Datainfo("none", None, <<>>, <<>>, {})

\* the members of a composite as member datainfos
MemberInfos(acc) == [ i \in 1..Len(acc.members) |-> MemberInfo(acc.members[i]) ]

\* the names of the members of a struct, in the order of the document
StructKeys(acc) == [ i \in 1..Len(acc.members) |-> DecimalDigits[i + 1] ]

\* parameter["datainfo"]
DatainfoOf(acc) ==
    Datainfo(acc.type, acc.scale, MemberInfos(acc),
             IF acc.type = "struct" THEN StructKeys(acc) ELSE <<>>, acc.values)

\* variant of AttrCls: an accessible without the readonly key is read-only
AttrCls_absentReadOnly(acc) == IF acc.readonly = "false" THEN "RW" ELSE "R"

\* attr_cls = AttrR if parameter.get("readonly", False) else AttrRW
AttrCls(acc) == IF acc.readonly = "true" THEN "R" ELSE "RW"

MkAttr(mname, acc, dtype, io, quirks) ==
    [ name        |-> acc.name,
      dtype       |-> dtype,
      access      |-> AttrCls(acc),
      io          |-> io,
      module      |-> mname,
      accessible  |-> acc.name,
      datainfo    |-> IF io = "typed" THEN acc.type ELSE "none",
      info        |-> IF io = "typed" THEN DatainfoOf(acc) ELSE NoDatainfo,
      period      |-> quirks.update_period,
      description |-> Description(acc, quirks),
      prec        |-> IF dtype = "Float"
                      THEN OrSix(format_string_to_prec(acc.fmtstr).value).num
                      ELSE 0,
      min_alarm   |-> IF dtype = "Float" THEN Scaled(acc.min, acc.scale)
                      ELSE IF dtype = "Int" THEN acc.min ELSE None,
      max_alarm   |-> IF dtype = "Float" THEN Scaled(acc.max, acc.scale)
                      ELSE IF dtype = "Int" THEN acc.max ELSE None ]

NoAttr ==
    [ name |-> "", dtype |-> "", access |-> "", io |-> "",
      module |-> "", accessible |-> "", datainfo |-> "", info |-> NoDatainfo,
      period |-> 0, description |-> <<>>, prec |-> 0, min_alarm |-> None,
      max_alarm |-> None ]

Skipped == [ kind |-> "skip", attr |-> NoAttr, err |-> NoError ]
Added(a) == [ kind |-> "attr", attr |-> a, err |-> NoError ]
Failed(e) == [ kind |-> "error", attr |-> NoAttr, err |-> e ]

\* variant of IsRaw: the type-wide quirk of any of the three types counts
IsRaw_anyTypeQuirk(mname, acc, typeQuirk, quirks) ==
    \/ quirks.raw_array
    \/ quirks.raw_tuple
    \/ quirks.raw_struct
    \/ <<mname, acc.name>> \in quirks.raw_accessibles

IsRaw(mname, acc, typeQuirk, quirks) ==
    typeQuirk \/ <<mname, acc.name>> \in quirks.raw_accessibles

\* variant of Unsupported: an accessible of an unknown type is passed over
Unsupported_ignored(acc) == Skipped

\* raise SecopError(f"Unsupported secop data type '{secop_dtype}")
Unsupported(acc) == Failed(Raise("SecopError", "Unsupported secop data type"))

\* variant of Dispatch: a command becomes a raw string attribute
Dispatch_commandAttribute(mname, acc, quirks) ==
         CASE acc.type = "command" ->
            Added(MkAttr(mname, acc, "String65536", "raw", quirks))
      [] acc.type \in {"double", "scaled"} ->
            IF format_string_to_prec(acc.fmtstr).err # NoError
            THEN Failed(format_string_to_prec(acc.fmtstr).err)
            ELSE Added(MkAttr(mname, acc, "Float", "typed", quirks))
      [] acc.type = "int" -> Added(MkAttr(mname, acc, "Int", "typed", quirks))
      [] acc.type = "bool" -> Added(MkAttr(mname, acc, "Bool", "typed", quirks))
      [] acc.type = "enum" -> Added(MkAttr(mname, acc, "Enum", "typed", quirks))
      [] acc.type = "string" -> Added(MkAttr(mname, acc, "String", "typed", quirks))
      [] acc.type = "blob" -> Added(MkAttr(mname, acc, "Waveform", "typed", quirks))
      [] acc.type = "array" ->
            IF IsRaw(mname, acc, quirks.raw_array, quirks)
            THEN Added(MkAttr(mname, acc, "String65536", "raw", quirks))
            ELSE IF secop_dtype_to_numpy_dtype(MemberInfo(acc.members[1])).err # NoError
            THEN Failed(Raise("SecopError", "member dtype"))
            ELSE Added(MkAttr(mname, acc, "Waveform", "typed", quirks))
      [] acc.type = "tuple" ->
            IF IsRaw(mname, acc, quirks.raw_tuple, quirks)
            THEN Added(MkAttr(mname, acc, "String65536", "raw", quirks))
            ELSE IF ~structured_dtype_ok(acc.members)
            THEN Failed(Raise("SecopError", "member dtype"))
            ELSE Added(MkAttr(mname, acc, "Table", "typed", quirks))
      [] acc.type = "struct" ->
            IF IsRaw(mname, acc, quirks.raw_struct, quirks)
            THEN Added(MkAttr(mname, acc, "String65536", "raw", quirks))
            ELSE IF ~structured_dtype_ok(acc.members)
            THEN Failed(Raise("SecopError", "member dtype"))
            ELSE Added(MkAttr(mname, acc, "Table", "typed", quirks))
      [] OTHER -> Unsupported(acc)

\* the dispatch on datainfo["type"] of an accessible that is not skipped
Dispatch(mname, acc, quirks) ==
         CASE acc.type = "command" -> Skipped
      [] acc.type \in {"double", "scaled"} ->
            IF format_string_to_prec(acc.fmtstr).err # NoError
            THEN Failed(format_string_to_prec(acc.fmtstr).err)
            ELSE Added(MkAttr(mname, acc, "Float", "typed", quirks))
      [] acc.type = "int" -> Added(MkAttr(mname, acc, "Int", "typed", quirks))
      [] acc.type = "bool" -> Added(MkAttr(mname, acc, "Bool", "typed", quirks))
      [] acc.type = "enum" -> Added(MkAttr(mname, acc, "Enum", "typed", quirks))
      [] acc.type = "string" -> Added(MkAttr(mname, acc, "String", "typed", quirks))
      [] acc.type = "blob" -> Added(MkAttr(mname, acc, "Waveform", "typed", quirks))
      [] acc.type = "array" ->
            IF IsRaw(mname, acc, quirks.raw_array, quirks)
            THEN Added(MkAttr(mname, acc, "String65536", "raw", quirks))
            ELSE IF secop_dtype_to_numpy_dtype(MemberInfo(acc.members[1])).err # NoError
            THEN Failed(Raise("SecopError", "member dtype"))
            ELSE Added(MkAttr(mname, acc, "Waveform", "typed", quirks))
      [] acc.type = "tuple" ->
            IF IsRaw(mname, acc, quirks.raw_tuple, quirks)
            THEN Added(MkAttr(mname, acc, "String65536", "raw", quirks))
            ELSE IF ~structured_dtype_ok(acc.members)
            THEN Failed(Raise("SecopError", "member dtype"))
            ELSE Added(MkAttr(mname, acc, "Table", "typed", quirks))
      [] acc.type = "struct" ->
            IF IsRaw(mname, acc, quirks.raw_struct, quirks)
            THEN Added(MkAttr(mname, acc, "String65536", "raw", quirks))
            ELSE IF ~structured_dtype_ok(acc.members)
            THEN Failed(Raise("SecopError", "member dtype"))
            ELSE Added(MkAttr(mname, acc, "Table", "typed", quirks))
      [] OTHER -> Unsupported(acc)

\* variant of MapAccessible: the skip list is consulted after the dispatch
MapAccessible_skipLast(mname, acc, quirks) ==
    IF Dispatch(mname, acc, quirks).kind = "error"
    THEN Dispatch(mname, acc, quirks)
    ELSE IF <<mname, acc.name>> \in quirks.skip_accessibles THEN Skipped
    ELSE Dispatch(mname, acc, quirks)

\* one iteration of the loop of SecopModuleController.initialise
MapAccessible(mname, acc, quirks) ==
    IF <<mname, acc.name>> \in quirks.skip_accessibles THEN Skipped
    ELSE Dispatch(mname, acc, quirks)

\* SecopModuleController.initialise: the loop over the module's accessibles,
\* stopping at the first error; attrs are the attributes added so far
RECURSIVE ModuleLoop(_, _, _, _, _)
ModuleLoop(mname, accs, quirks, i, attrs) ==
    IF i > Len(accs) THEN [ err |-> NoError, attrs |-> attrs ]
    ELSE LET r == MapAccessible(mname, accs[i], quirks) IN
         IF r.kind = "error" THEN [ err |-> r.err, attrs |-> attrs ]
         ELSE IF r.kind = "skip" THEN ModuleLoop(mname, accs, quirks, i + 1, attrs)
         ELSE ModuleLoop(mname, accs, quirks, i + 1, Append(attrs, r.attr))

ModuleInitialise(module, quirks) ==
    ModuleLoop(module.name, module.accessibles, quirks, 1, <<>>)

\* ------------------------------------------------------------- the tasks
PollNames == <<"poll1", "poll2", "poll3", "poll4">>

PollTasks == { PollNames[i] : i \in 1..NumPollTasks }

Tasks == {"init", "ping", "write"} \cup PollTasks

NoTask == "none"

\* ---------------------------------------------------------- request lines
IdnRequest == <<"*IDN?", NL>>
DeactivateRequest == <<"deactivate", NL>>
DescribeRequest == <<"describe", NL>>
PingRequest(token) == <<"ping", SP, token, NL>>
ReadRequest(m, a) == <<"read", SP, m, ":", a, NL>>
ChangeRequest(m, a, v) == <<"change", SP, m, ":", a, SP, v, NL>>

ReadPrefix(m, a) == <<"reply", SP, m, ":", a, SP>>
ChangedPrefix(m, a) == <<"changed", SP, m, ":", a, SP>>
DescribePrefix == <<"describing", SP, ".", SP>>

\* uuid.uuid4()
Tokens == {"uuid"}

\* ----------------------------------------------------------- the SECoP node
IdnReplies ==
    { <<"ISSE&SINE2020", ",", "SECoP", ",", "V2019", ",", "impl", NL>>,
      <<"ISSE", ",", "SECoP", ",", "V2019", ",", "impl", NL>>,
      <<"ACME", ",", "SECoP", ",", "V2019", ",", "impl", NL>>,
      <<"ISSE", ",", "OTHER", ",", "V2019", ",", "impl", NL>>,
      <<"ACME", ",", "OTHER", ",", "V2019", ",", "impl", NL>>,
      <<"ISSE", ",", "SECoP", ",", "V2019", NL>>,
      <<"ISSE", ",", "SECoP", ",", "V2019", ",", "impl", ",", "extra", NL>> }

DocTexts == {"doc_good", "doc_bad2", "doc_nested", "doc_noequip", "not_json"}

DescribeReplies ==
    { DescribePrefix \o <<d, NL>> : d \in DocTexts }
        \cup { <<"error_describe", SP, ".", SP, "doc_good", NL>> }

\* the payloads of the replies to read: a data report as json.dumps writes
\* it, with a blank after the comma, and a text that is not JSON
PayloadTexts == { <<"[1,", SP, "{}]">>, <<"not_json">> }

\* the reply lines the node may give to a request line
PeerAnswers(line) ==
    CASE line[1] = "*IDN?"      -> IdnReplies
      [] line[1] = "deactivate" -> { <<"inactive", NL>> }
      [] line[1] = "describe"   -> DescribeReplies
      [] line[1] = "ping"       -> { <<"pong", SP, line[3], NL>> }
      [] line[1] = "read"       ->
            { ReadPrefix(line[3], line[5]) \o d \o <<NL>> : d \in PayloadTexts }
                \cup { ReadPrefix(line[3], "other") \o <<"[1,", SP, "{}]", NL>> }
                \cup { <<"error_read", SP, line[3], ":", line[5], NL>> }
      [] line[1] = "change"     ->
            { ChangedPrefix(line[3], line[5]) \o <<line[7], NL>>,
              <<"error_change", SP, line[3], ":", line[5], NL>> }
      [] OTHER                  -> { <<"error", NL>> }

\* ------------------------------------------------------------------- state
VARIABLES
    peerUp,          \* the node is reachable
    connOpen,        \* the connection has an open socket to the node
    lock,            \* the task inside send_query, or NoTask
    req,             \* per task: the request it is waiting on
    pending,         \* requests written to the socket, not yet answered
    replies,         \* reply lines written by the node, not yet read
    quirks,          \* SecopController.quirks
    pc,              \* per task: where its coroutine is suspended
    err,             \* per task: the exception that escaped its coroutine
    outcome,         \* per task: how its latest call ended
    log,             \* the steps taken by SecopController.initialise
    identification,  \* check_idn: the stripped reply to *IDN?
    descriptor,      \* initialise: the reply to describe
    initK,           \* initialise: modules of the description dealt with
    subs,            \* the registered sub-controllers, in order
    pingConnects,    \* connect() calls made by the current ping() call
    target,          \* per IO task: the attribute of the current call
    value,           \* attribute values held by the attribute host
    sentAfterInit    \* request verbs written after initialise() returned

connVars == <<peerUp, connOpen, lock, req, pending, replies>>

\* what a run never changes: the quirks and the description tree of the node
cfgVars == <<quirks, nodeModules, fn>>

initVars == <<log, identification, descriptor, initK, subs>>

ioVars == <<target, value>>

vars == <<peerUp, connOpen, lock, req, pending, replies, quirks, pc, err,
          outcome, log, identification, descriptor, initK, subs,
          pingConnects, target, value, sentAfterInit, nodeModules, fn>>

NoReq == [ line |-> <<>>, live |-> FALSE ]

NoTarget == <<"", "">>

AttrKeys == { <<"m1", "p">>, <<"m1", "q">>, <<"m1", "a">>,
              <<"m2", "s">>, <<"m2", "w">>, <<"m2", "c">> }

Init ==
    /\ peerUp \in BOOLEAN
    /\ connOpen = FALSE
    /\ lock = NoTask
    /\ req = [ t \in Tasks |-> NoReq ]
    /\ pending = <<>>
    /\ replies = <<>>
    /\ quirks \in QuirksChoices
    /\ nodeModules = <<>>
    /\ fn = FnIdle
    /\ pc = [ t \in Tasks |-> IF t = "init" THEN "connect" ELSE "idle" ]
    /\ err = [ t \in Tasks |-> NoError ]
    /\ outcome = [ t \in Tasks |-> "none" ]
    /\ log = <<>>
    /\ identification = <<>>
    /\ descriptor = <<>>
    /\ initK = 0
    /\ subs = <<>>
    /\ pingConnects = 0
    /\ target = [ t \in Tasks |-> NoTarget ]
    /\ value = [ k \in AttrKeys |-> <<"init">> ]
    /\ sentAfterInit = {}

\* -------------------------------------------------------- the connection
\* IPConnection.connect: a new socket replaces the old one; requests still
\* waiting on the old socket can only fail
ConnectOpens ==
    /\ connOpen' = TRUE
    /\ req' = [ t \in Tasks |-> [ req[t] EXCEPT !.live = FALSE ] ]
    /\ pending' = <<>>
    /\ replies' = <<>>
    /\ UNCHANGED <<peerUp, lock>>

\* the errors connect() can fail with when the node is unreachable
ConnectErrors ==
    { Raise("ConnectionError", "connect"), Raise("OSError", "connect") }

\* variant of SendQueryWrite: the request line is written without taking
\* the connection
SendQueryWrite_unserialised(t, line) ==
    /\ lock' = t
    /\ req' = [ req EXCEPT ![t] = [ line |-> line, live |-> connOpen ] ]
    /\ pending' = IF connOpen
                  THEN Append(pending, [ by |-> t, line |-> line ])
                  ELSE pending
    /\ sentAfterInit' = IF pc["init"] = "done"
                        THEN sentAfterInit \cup { line[1] }
                        ELSE sentAfterInit
    /\ UNCHANGED <<peerUp, connOpen, replies>>

\* variant of SendQueryWrite: the connection is held for the write only,
\* not until the reply has been read
SendQueryWrite_writeOnly(t, line) ==
    /\ lock = NoTask
    /\ lock' = NoTask
    /\ req' = [ req EXCEPT ![t] = [ line |-> line, live |-> connOpen ] ]
    /\ pending' = IF connOpen
                  THEN Append(pending, [ by |-> t, line |-> line ])
                  ELSE pending
    /\ sentAfterInit' = IF pc["init"] = "done"
                        THEN sentAfterInit \cup { line[1] }
                        ELSE sentAfterInit
    /\ UNCHANGED <<peerUp, connOpen, replies>>

\* IPConnection.send_query, first half: take the connection and write the
\* request line; on a closed socket the query can only fail
SendQueryWrite(t, line) ==
    /\ lock = NoTask
    /\ lock' = t
    /\ req' = [ req EXCEPT ![t] = [ line |-> line, live |-> connOpen ] ]
    /\ pending' = IF connOpen
                  THEN Append(pending, [ by |-> t, line |-> line ])
                  ELSE pending
    /\ sentAfterInit' = IF pc["init"] = "done"
                        THEN sentAfterInit \cup { line[1] }
                        ELSE sentAfterInit
    /\ UNCHANGED <<peerUp, connOpen, replies>>

\* connect() returning to a caller whose next statement is send_query, with
\* the connection free: the caller is not suspended between the two, so the
\* new socket is in place and the request line is written in one step
ConnectThenQuery(t, line) ==
    /\ lock = NoTask
    /\ lock' = t
    /\ connOpen' = TRUE
    /\ req' = [ u \in Tasks |->
                  IF u = t THEN [ line |-> line, live |-> TRUE ]
                  ELSE [ req[u] EXCEPT !.live = FALSE ] ]
    /\ pending' = << [ by |-> t, line |-> line ] >>
    /\ replies' = <<>>
    /\ sentAfterInit' = IF pc["init"] = "done"
                        THEN sentAfterInit \cup { line[1] }
                        ELSE sentAfterInit
    /\ UNCHANGED peerUp

\* IPConnection.send_query, second half: one reply line has arrived
SendQueryReturn(t) ==
    /\ req[t].line # <<>>
    /\ req[t].live
    /\ replies # <<>>
    /\ lock' = NoTask
    /\ req' = [ req EXCEPT ![t] = NoReq ]
    /\ replies' = Tail(replies)
    /\ UNCHANGED <<peerUp, connOpen, pending, sentAfterInit>>

Response == Head(replies).line

\* IPConnection.send_query failing with ConnectionError
SendQueryRaise(t) ==
    /\ req[t].line # <<>>
    /\ ~req[t].live
    /\ lock' = NoTask
    /\ req' = [ req EXCEPT ![t] = NoReq ]
    /\ UNCHANGED <<peerUp, connOpen, pending, replies, sentAfterInit>>

\* ------------------------------------------------------- the environment
PeerDown ==
    /\ peerUp
    /\ peerUp' = FALSE
    /\ connOpen' = FALSE
    /\ req' = [ t \in Tasks |-> [ req[t] EXCEPT !.live = FALSE ] ]
    /\ pending' = <<>>
    /\ replies' = <<>>
    /\ UNCHANGED <<lock, cfgVars, pc, err, outcome, initVars, pingConnects,
                   ioVars, sentAfterInit>>

PeerRestored ==
    /\ ~peerUp
    /\ peerUp' = TRUE
    /\ UNCHANGED <<connOpen, lock, req, pending, replies, cfgVars, pc, err,
                   outcome, initVars, pingConnects, ioVars, sentAfterInit>>

PeerReply ==
    /\ connOpen
    /\ pending # <<>>
    /\ \E r \in PeerAnswers(Head(pending).line) :
          replies' = Append(replies, [ for |-> Head(pending).by, line |-> r ])
    /\ pending' = Tail(pending)
    /\ UNCHANGED <<peerUp, connOpen, lock, req, cfgVars, pc, err, outcome,
                   initVars, pingConnects, ioVars, sentAfterInit>>

\* ------------------------------------------------ SecopController.check_idn
Manufacturers == { <<"ISSE&SINE2020">>, <<"ISSE">> }

\* the part of check_idn after the reply has arrived: the error it raises
CheckIdn(reply) ==
    LET fields == Split(Strip(reply), ",") IN
    IF Len(fields) # 4 THEN Raise("ValueError", "unpack")
    ELSE IF fields[1] \notin Manufacturers THEN Raise("SecopError", "manufacturer")
    ELSE IF fields[2] # <<"SECoP">> THEN Raise("SecopError", "product")
    ELSE NoError

\* ----------------------------------------------- SecopController.initialise
\* the part of initialise between the reply to describe and the module loop
ParseDescribe(reply) ==
    IF ~StartsWith(reply, DescribePrefix) THEN Raise("SecopError", "describe")
    ELSE LET text == Strip(AfterPrefix(reply, DescribePrefix)) IN
         IF Len(text) # 1 \/ ~JsonLoads(text[1]).wf
         THEN Raise("JSONDecodeError", "describe")
         ELSE IF ~(AllKeys \subseteq JsonLoads(text[1]).keys)
         THEN Raise("KeyError", "describe")
         ELSE NoError

\* descriptor = json.loads(descriptor[len("describing . "):])
DescriptorDoc ==
    IF descriptor # <<>> /\ ParseDescribe(descriptor) = NoError
    THEN JsonLoads(Strip(AfterPrefix(descriptor, DescribePrefix))[1])
    ELSE NoDoc

\* modules = descriptor["modules"]
Modules == DescriptorDoc.modules

InitFails(e) ==
    /\ pc' = [ pc EXCEPT !["init"] = "failed" ]
    /\ err' = [ err EXCEPT !["init"] = e ]

\* await self.connect()
InitConnect ==
    /\ pc["init"] = "connect"
    /\ log' = Append(log, "connect")
    /\ IF peerUp
       THEN /\ ConnectOpens
            /\ pc' = [ pc EXCEPT !["init"] = "idn_send" ]
            /\ UNCHANGED err
       ELSE /\ \E e \in ConnectErrors : InitFails(e)
            /\ UNCHANGED connVars
    /\ UNCHANGED <<cfgVars, outcome, identification, descriptor, initK, subs,
                   pingConnects, ioVars, sentAfterInit>>

\* check_idn: send_query("*IDN?\n") is entered
InitSendIdn ==
    /\ pc["init"] = "idn_send"
    /\ SendQueryWrite("init", IdnRequest)
    /\ log' = Append(log, "*IDN?")
    /\ pc' = [ pc EXCEPT !["init"] = "idn_wait" ]
    /\ UNCHANGED <<cfgVars, err, outcome, identification, descriptor, initK,
                   subs, pingConnects, ioVars>>

\* variant of InitIdnReply: describe is queried right after the
\* identification, before deactivate
InitIdnReply_describeFirst ==
    /\ pc["init"] = "idn_wait"
    /\ SendQueryReturn("init")
    /\ identification' = Strip(Response)
    /\ IF CheckIdn(Response) = NoError
       THEN /\ pc' = [ pc EXCEPT !["init"] = "desc_send" ]
            /\ UNCHANGED err
       ELSE InitFails(CheckIdn(Response))
    /\ UNCHANGED <<cfgVars, outcome, log, descriptor, initK, subs,
                   pingConnects, ioVars>>

\* check_idn: the reply is checked
InitIdnReply ==
    /\ pc["init"] = "idn_wait"
    /\ SendQueryReturn("init")
    /\ identification' = Strip(Response)
    /\ IF CheckIdn(Response) = NoError
       THEN /\ pc' = [ pc EXCEPT !["init"] = "deact_send" ]
            /\ UNCHANGED err
       ELSE InitFails(CheckIdn(Response))
    /\ UNCHANGED <<cfgVars, outcome, log, descriptor, initK, subs,
                   pingConnects, ioVars>>

\* variant of InitQueryLost: a failure of deactivate is passed over and
\* initialise goes on to describe
InitQueryLost_deactivateOptional ==
    /\ pc["init"] \in {"idn_wait", "deact_wait", "desc_wait"}
    /\ SendQueryRaise("init")
    /\ IF pc["init"] = "deact_wait"
       THEN /\ pc' = [ pc EXCEPT !["init"] = "desc_send" ]
            /\ UNCHANGED err
       ELSE InitFails(Raise("ConnectionError", pc["init"]))
    /\ UNCHANGED <<cfgVars, outcome, initVars, pingConnects, ioVars>>

\* a query of initialise fails with ConnectionError, which propagates
InitQueryLost ==
    /\ pc["init"] \in {"idn_wait", "deact_wait", "desc_wait"}
    /\ SendQueryRaise("init")
    /\ InitFails(Raise("ConnectionError", pc["init"]))
    /\ UNCHANGED <<cfgVars, outcome, initVars, pingConnects, ioVars>>

\* await self.deactivate(): send_query("deactivate\n") is entered
InitSendDeactivate ==
    /\ pc["init"] = "deact_send"
    /\ SendQueryWrite("init", DeactivateRequest)
    /\ log' = Append(log, "deactivate")
    /\ identification' = <<>>
    /\ pc' = [ pc EXCEPT !["init"] = "deact_wait" ]
    /\ UNCHANGED <<cfgVars, err, outcome, descriptor, initK, subs,
                   pingConnects, ioVars>>

InitDeactivateReply ==
    /\ pc["init"] = "deact_wait"
    /\ SendQueryReturn("init")
    /\ pc' = [ pc EXCEPT !["init"] = "desc_send" ]
    /\ UNCHANGED <<cfgVars, err, outcome, initVars, pingConnects, ioVars>>

\* send_query("describe\n") is entered
InitSendDescribe ==
    /\ pc["init"] = "desc_send"
    /\ SendQueryWrite("init", DescribeRequest)
    /\ log' = Append(log, "describe")
    /\ pc' = [ pc EXCEPT !["init"] = "desc_wait" ]
    /\ UNCHANGED <<cfgVars, err, outcome, identification, descriptor, initK,
                   subs, pingConnects, ioVars>>

\* the reply to describe is checked and parsed
InitDescribeReply ==
    /\ pc["init"] = "desc_wait"
    /\ SendQueryReturn("init")
    /\ descriptor' = Response
    /\ IF ParseDescribe(Response) = NoError
       THEN /\ pc' = [ pc EXCEPT !["init"] = "map" ]
            /\ UNCHANGED err
       ELSE InitFails(ParseDescribe(Response))
    /\ UNCHANGED <<cfgVars, outcome, log, identification, initK, subs,
                   pingConnects, ioVars>>

\* variant of SkipModule: no module is skipped
SkipModule_never(name) == FALSE

\* if module_name in self.quirks.skip_modules: continue
SkipModule(name) == name \in quirks.skip_modules

\* variant of InitMapModule: the sub-controller is registered before its
\* initialise() is awaited
InitMapModule_registerFirst ==
    /\ pc["init"] = "map"
    /\ initK < Len(Modules)
    /\ initK' = initK + 1
    /\ LET module == Modules[initK + 1]
           r == ModuleInitialise(module, quirks) IN
       IF SkipModule(module.name)
       THEN UNCHANGED <<subs, pc, err>>
       ELSE /\ subs' = Append(subs, [ name |-> module.name, attrs |-> r.attrs ])
            /\ IF r.err # NoError
               THEN InitFails(r.err)
               ELSE UNCHANGED <<pc, err>>
    /\ UNCHANGED <<connVars, cfgVars, outcome, log, identification, descriptor,
                   pingConnects, ioVars, sentAfterInit>>

\* one iteration of the loop over modules.items()
InitMapModule ==
    /\ pc["init"] = "map"
    /\ initK < Len(Modules)
    /\ initK' = initK + 1
    /\ LET module == Modules[initK + 1]
           r == ModuleInitialise(module, quirks) IN
       IF SkipModule(module.name)
       THEN UNCHANGED <<subs, pc, err>>
       ELSE IF r.err # NoError
       THEN /\ InitFails(r.err)
            /\ UNCHANGED subs
       ELSE /\ subs' = Append(subs, [ name |-> module.name, attrs |-> r.attrs ])
            /\ UNCHANGED <<pc, err>>
    /\ UNCHANGED <<connVars, cfgVars, outcome, log, identification, descriptor,
                   pingConnects, ioVars, sentAfterInit>>

\* initialise() returns
InitReturn ==
    /\ pc["init"] = "map"
    /\ initK = Len(Modules)
    /\ pc' = [ pc EXCEPT !["init"] = "done" ]
    /\ UNCHANGED <<connVars, cfgVars, err, outcome, initVars, pingConnects,
                   ioVars, sentAfterInit>>

Initialise ==
    \/ InitConnect
    \/ InitSendIdn
    \/ InitIdnReply
    \/ InitQueryLost
    \/ InitSendDeactivate
    \/ InitDeactivateReply
    \/ InitSendDescribe
    \/ InitDescribeReply
    \/ InitMapModule
    \/ InitReturn

\* --------------------------------------------------- SecopController.ping
\* variant of ReconnectCatches: except ConnectionError
ReconnectCatches_connectionOnly(e) == e.type = "ConnectionError"

\* the exceptions the handler around connect() and deactivate() catches:
\* except Exception
ReconnectCatches(e) == TRUE

PingEnds(how) ==
    /\ pc' = [ pc EXCEPT !["ping"] = "idle" ]
    /\ outcome' = [ outcome EXCEPT !["ping"] = how ]
    /\ UNCHANGED err

\* an exception leaves ping(): the scan task is gone
PingEscapes(e) ==
    /\ pc' = [ pc EXCEPT !["ping"] = "dead" ]
    /\ outcome' = [ outcome EXCEPT !["ping"] = "raised" ]
    /\ err' = [ err EXCEPT !["ping"] = e ]

\* a probe tick: send_query(f"ping {token}\n") is entered
PingStart ==
    /\ pc["init"] = "done"
    /\ pc["ping"] = "idle"
    /\ \E token \in Tokens : SendQueryWrite("ping", PingRequest(token))
    /\ pingConnects' = 0
    /\ pc' = [ pc EXCEPT !["ping"] = "ping_wait" ]
    /\ outcome' = [ outcome EXCEPT !["ping"] = "running" ]
    /\ UNCHANGED <<cfgVars, err, initVars, ioVars>>

\* the ping query returned a reply
PingReply ==
    /\ pc["ping"] = "ping_wait"
    /\ SendQueryReturn("ping")
    /\ PingEnds("ok")
    /\ UNCHANGED <<cfgVars, initVars, pingConnects, ioVars>>

\* variant of PingLost: the connection loss is absorbed without a
\* reconnect attempt
PingLost_noReconnect ==
    /\ pc["ping"] = "ping_wait"
    /\ SendQueryRaise("ping")
    /\ PingEnds("reconnect_failed")
    /\ UNCHANGED <<cfgVars, initVars, pingConnects, ioVars>>

\* except ConnectionError: the reconnect attempt begins
PingLost ==
    /\ pc["ping"] = "ping_wait"
    /\ SendQueryRaise("ping")
    /\ pc' = [ pc EXCEPT !["ping"] = "reconnect" ]
    /\ UNCHANGED <<cfgVars, err, outcome, initVars, pingConnects, ioVars>>

\* variant of PingConnect: a failed connect() is tried again
PingConnect_retries ==
    /\ pc["ping"] = "reconnect"
    /\ pingConnects' = pingConnects + 1
    /\ IF peerUp
       THEN /\ IF lock = NoTask
               THEN /\ ConnectThenQuery("ping", DeactivateRequest)
                    /\ pc' = [ pc EXCEPT !["ping"] = "deact_wait" ]
               ELSE /\ ConnectOpens
                    /\ pc' = [ pc EXCEPT !["ping"] = "deact_send" ]
                    /\ UNCHANGED sentAfterInit
            /\ UNCHANGED <<err, outcome>>
       ELSE UNCHANGED <<connVars, pc, err, outcome, sentAfterInit>>
    /\ UNCHANGED <<cfgVars, initVars, ioVars>>

\* await self.connect() inside the reconnect attempt; when it returns,
\* deactivate() is entered at once, and its send_query either finds the
\* connection free and writes, or waits for the task that holds it
PingConnect ==
    /\ pc["ping"] = "reconnect"
    /\ pingConnects' = pingConnects + 1
    /\ IF peerUp
       THEN /\ IF lock = NoTask
               THEN /\ ConnectThenQuery("ping", DeactivateRequest)
                    /\ pc' = [ pc EXCEPT !["ping"] = "deact_wait" ]
               ELSE /\ ConnectOpens
                    /\ pc' = [ pc EXCEPT !["ping"] = "deact_send" ]
                    /\ UNCHANGED sentAfterInit
            /\ UNCHANGED <<err, outcome>>
       ELSE /\ \E e \in ConnectErrors :
                  IF ReconnectCatches(e)
                  THEN PingEnds("reconnect_failed")
                  ELSE PingEscapes(e)
            /\ UNCHANGED <<connVars, sentAfterInit>>
    /\ UNCHANGED <<cfgVars, initVars, ioVars>>

\* variant of PingSendDeactivate: the reconnect attempt fetches the
\* description again
PingSendDeactivate_describes ==
    /\ pc["ping"] = "deact_send"
    /\ SendQueryWrite("ping", DescribeRequest)
    /\ pc' = [ pc EXCEPT !["ping"] = "deact_wait" ]
    /\ UNCHANGED <<cfgVars, err, outcome, initVars, pingConnects, ioVars>>

\* await self.deactivate() inside the reconnect attempt, once the task that
\* held the connection when connect() returned has let go of it
PingSendDeactivate ==
    /\ pc["ping"] = "deact_send"
    /\ SendQueryWrite("ping", DeactivateRequest)
    /\ pc' = [ pc EXCEPT !["ping"] = "deact_wait" ]
    /\ UNCHANGED <<cfgVars, err, outcome, initVars, pingConnects, ioVars>>

PingDeactivateReply ==
    /\ pc["ping"] = "deact_wait"
    /\ SendQueryReturn("ping")
    /\ PingEnds("reconnected")
    /\ UNCHANGED <<cfgVars, initVars, pingConnects, ioVars>>

PingDeactivateLost ==
    /\ pc["ping"] = "deact_wait"
    /\ SendQueryRaise("ping")
    /\ IF ReconnectCatches(Raise("ConnectionError", "deactivate"))
       THEN PingEnds("reconnect_failed")
       ELSE PingEscapes(Raise("ConnectionError", "deactivate"))
    /\ UNCHANGED <<cfgVars, initVars, pingConnects, ioVars>>

Ping ==
    \/ PingStart
    \/ PingReply
    \/ PingLost
    \/ PingConnect
    \/ PingSendDeactivate
    \/ PingDeactivateReply
    \/ PingDeactivateLost

\* -------------------------------------------------------------- wire codec
B64Alphabet ==
    << "A", "B", "C", "D", "E", "F", "G", "H", "I", "J", "K", "L", "M",
       "N", "O", "P", "Q", "R", "S", "T", "U", "V", "W", "X", "Y", "Z",
       "a", "b", "c", "d", "e", "f", "g", "h", "i", "j", "k", "l", "m",
       "n", "o", "p", "q", "r", "s", "t", "u", "v", "w", "x", "y", "z",
       "0", "1", "2", "3", "4", "5", "6", "7", "8", "9", "+", "/" >>

B64Chars == { B64Alphabet[i] : i \in 1..64 }

B64Char(n) == B64Alphabet[n + 1]

B64Index(c) == (CHOOSE i \in 1..64 : B64Alphabet[i] = c) - 1

\* base64.b64encode(bs): three bytes to four characters, "=" padding
RECURSIVE b64encode(_)
b64encode(bs) ==
    IF bs = <<>> THEN <<>>
    ELSE IF Len(bs) = 1
    THEN LET n == bs[1] * 16 IN
         << B64Char(n \div 64), B64Char(n % 64), "=", "=" >>
    ELSE IF Len(bs) = 2
    THEN LET n == (bs[1] * 256 + bs[2]) * 4 IN
         << B64Char(n \div 4096), B64Char((n \div 64) % 64), B64Char(n % 64), "=" >>
    ELSE LET n == bs[1] * 65536 + bs[2] * 256 + bs[3] IN
         << B64Char(n \div 262144), B64Char((n \div 4096) % 64),
            B64Char((n \div 64) % 64), B64Char(n % 64) >>
         \o b64encode(SubSeq(bs, 4, Len(bs)))

\* the bytes of a run of base64 digits whose length is not 1 modulo 4
RECURSIVE B64Bytes(_)
B64Bytes(cs) ==
    IF Len(cs) < 2 THEN <<>>
    ELSE IF Len(cs) = 2
    THEN << (B64Index(cs[1]) * 64 + B64Index(cs[2])) \div 16 >>
    ELSE IF Len(cs) = 3
    THEN LET n == ((B64Index(cs[1]) * 64 + B64Index(cs[2])) * 64
                        + B64Index(cs[3])) \div 4 IN
         << n \div 256, n % 256 >>
    ELSE LET n == ((B64Index(cs[1]) * 64 + B64Index(cs[2])) * 64
                        + B64Index(cs[3])) * 64 + B64Index(cs[4]) IN
         << n \div 65536, (n \div 256) % 256, n % 256 >>
         \o B64Bytes(SubSeq(cs, 5, Len(cs)))

\* base64.b64decode(s) without validation: characters outside the alphabet
\* are discarded, and the digits must come in fours once the padding is
\* counted
b64decode(s) ==
    IF s.py \notin {"str", "bytes"}
    THEN Raised("TypeError", "argument should be a bytes-like object or ASCII string")
    ELSE LET cs == IF s.py = "str" THEN s.str ELSE <<>>
             digits == SelectSeq(cs, LAMBDA c : c \in B64Chars)
             pads == Len(SelectSeq(cs, LAMBDA c : c = "="))
             k == Len(digits) % 4 IN
         IF k = 1 THEN Raised("binascii.Error", "Invalid base64-encoded string")
         ELSE IF (k = 2 /\ pads < 2) \/ (k = 3 /\ pads < 1)
         THEN Raised("binascii.Error", "Incorrect padding")
         ELSE Ok(PyBytes(B64Bytes(digits)))

\* "".join(chr(c) for c in value).encode("utf-8") for code points below 2048
RECURSIVE Utf8(_)
Utf8(cps) ==
    IF cps = <<>> THEN <<>>
    ELSE (IF cps[1] < 128 THEN << cps[1] >>
          ELSE << 192 + (cps[1] \div 64), 128 + (cps[1] % 64) >>)
         \o Utf8(Tail(cps))

\* str(n) of an integer, as characters
RECURSIVE StrOfInt(_)
StrOfInt(n) ==
    IF n < 0 THEN << "-" >> \o StrOfInt(0 - n)
    ELSE IF n < 10 THEN << DecimalDigits[n + 1] >>
    ELSE StrOfInt(n \div 10) \o << DecimalDigits[(n % 10) + 1] >>

Int32 == (0 - 2147483647 - 1)..2147483647
UInt8 == 0..255

\* the element numpy stores for a Python scalar x under a scalar dtype
NpCast(x, dtype) ==
    IF dtype.np = "U"
    THEN CASE x.py = "str"    -> Ok(PyStr(SliceTo(x.str, Some(dtype.chars))))
           [] x.py = "number" -> Ok(PyStr(SliceTo(StrOfInt(x.num), Some(dtype.chars))))
           [] x.py = "bool"   ->
                Ok(PyStr(SliceTo(IF x.bool THEN << "T", "r", "u", "e" >>
                                 ELSE << "F", "a", "l", "s", "e" >>,
                                 Some(dtype.chars))))
           [] OTHER -> Raised("ValueError", "setting an array element with a sequence")
    ELSE LET range == CASE dtype.np = "int32" -> Int32
                        [] dtype.np = "uint8" -> UInt8
                        [] OTHER -> Int IN
         CASE x.py = "number" ->
                IF dtype.np # "float64" /\ x.num \notin range
                THEN Raised("OverflowError", "Python integer out of bounds")
                ELSE Ok(PyNum(x.num))
           [] x.py = "bool" -> Ok(PyNum(IF x.bool THEN 1 ELSE 0))
           [] x.py = "str"  -> Raised("ValueError", "invalid literal")
           [] x.py \in {"list", "tuple"} ->
                Raised("ValueError", "setting an array element with a sequence")
           [] OTHER -> Raised("TypeError", "argument must be a string or a real number")

\* the first of the results rs that raised
FirstRaised(rs) ==
    rs[CHOOSE i \in 1..Len(rs) : /\ rs[i].err # NoError
                                 /\ \A j \in 1..(i - 1) : rs[j].err = NoError]

AnyRaised(rs) == \E i \in 1..Len(rs) : rs[i].err # NoError

Values(rs) == [ i \in 1..Len(rs) |-> rs[i].value ]

\* np.array(obj, dtype=dtype) for a scalar dtype: a list gives a
\* one-dimensional array, a scalar a zero-dimensional one
NpArray(obj, dtype) ==
    CASE obj.py \in {"list", "tuple"} ->
            LET xs == IF obj.py = "list" THEN obj.list ELSE obj.tuple
                rs == [ i \in 1..Len(xs) |-> NpCast(xs[i], dtype) ] IN
            IF AnyRaised(rs) THEN FirstRaised(rs)
            ELSE Ok(NdArray(dtype, 1, Values(rs)))
      [] obj.py \in {"number", "bool", "str"} ->
            LET r == NpCast(obj, dtype) IN
            IF r.err # NoError THEN r ELSE Ok(NdArray(dtype, 0, << r.value >>))
      [] OTHER -> Raised("TypeError", "argument must be a string or a real number")

\* tuple(obj)
TupleOf(obj) ==
    CASE obj.py = "list"  -> Ok(PyTuple(obj.list))
      [] obj.py = "tuple" -> Ok(obj)
      [] obj.py = "str"   -> Ok(PyTuple([ i \in 1..Len(obj.str) |-> PyStr(<< obj.str[i] >>) ]))
      [] obj.py = "dict"  -> Ok(PyTuple([ i \in 1..Len(obj.keys) |-> PyStr(<< obj.keys[i] >>) ]))
      [] OTHER -> Raised("TypeError", "object is not iterable")

\* np.array([row], dtype=fields) for a structured dtype: one record whose
\* fields are the elements of the tuple row
NpRecordArray(row, fields) ==
    IF Len(row.tuple) # Len(fields)
    THEN Raised("ValueError", "could not assign tuple to structure")
    ELSE LET rs == [ i \in 1..Len(fields) |-> NpCast(row.tuple[i], fields[i]) ] IN
         IF AnyRaised(rs) THEN FirstRaised(rs)
         ELSE Ok(NdRecords(fields, << PyTuple(Values(rs)) >>))

\* ndarray.tolist()
ToList(arr) ==
    IF arr.ndim = 0 THEN arr.items[1] ELSE PyList(arr.items)

\* a JSON text: wf is FALSE for a text json.loads rejects
JsonTextOf(doc) == [ wf |-> TRUE, doc |-> doc ]
NotJson == [ wf |-> FALSE, doc |-> JNull ]

\* value * datainfo["scale"]
TimesScale(obj, scale) ==
    CASE obj.py = "number" -> Ok(PyNum(obj.num * scale))
      [] obj.py = "bool"   -> Ok(PyNum((IF obj.bool THEN 1 ELSE 0) * scale))
      [] obj.py = "str"    -> Ok(PyStr(Repeat(obj.str, scale)))
      [] obj.py = "list"   -> Ok(PyList(Repeat(obj.list, scale)))
      [] OTHER -> Raised("TypeError", "unsupported operand type(s) for *")

\* attr.dtype(value): the member of the enum class that has the value
EnumMember(obj, values) ==
    LET n == CASE obj.py = "number" -> obj.num
               [] obj.py = "bool"   -> IF obj.bool THEN 1 ELSE 0
               [] OTHER               -> -1 IN
    IF obj.py \in {"number", "bool"} /\ n \in values
    THEN Ok(PyEnum(n))
    ELSE Raised("ValueError", "is not a valid enum_type")

\* the record a structured array of one row holds after arr[0][k] = v for
\* the items of the dict, every other field left zero
StructRow(obj, datainfo, fields) ==
    LET zero(i) == IF fields[i].np = "U" THEN PyStr(<<>>) ELSE PyNum(0)
        at(i) == CHOOSE j \in 1..Len(obj.keys) :
                    /\ obj.keys[j] = datainfo.keys[i]
                    /\ \A l \in (j + 1)..Len(obj.keys) : obj.keys[l] # obj.keys[j]
        has(i) == \E j \in 1..Len(obj.keys) : obj.keys[j] = datainfo.keys[i]
        rs == [ i \in 1..Len(fields) |->
                  IF has(i) THEN NpCast(obj.vals[at(i)], fields[i])
                  ELSE Ok(zero(i)) ] IN
    IF \E j \in 1..Len(obj.keys) :
            \A i \in 1..Len(datainfo.keys) : datainfo.keys[i] # obj.keys[j]
    THEN Raised("ValueError", "no field of name")
    ELSE IF AnyRaised(rs) THEN FirstRaised(rs)
    ELSE Ok(NdRecords(fields, << PyTuple(Values(rs)) >>))

\* SecopAttributeIO.decode
decode(text, datainfo) ==
    IF ~text.wf THEN Raised("JSONDecodeError", "Expecting value")
    ELSE LET u == Unpack(json_loads(text.doc))
             v == u.value IN
    IF u.err # NoError THEN u
    ELSE CASE datainfo.type \in {"int", "bool", "double", "string"} -> Ok(v)
           [] datainfo.type = "enum" -> EnumMember(v, datainfo.values)
           [] datainfo.type = "scaled" ->
                IF datainfo.scale = None THEN Raised("KeyError", "scale")
                ELSE TimesScale(v, datainfo.scale[1])
           [] datainfo.type = "blob" ->
                LET b == b64decode(v) IN
                IF b.err # NoError THEN b
                ELSE Ok(NdArray(NpDtype("uint8"), 1,
                                [ i \in 1..Len(b.value.bytes) |-> PyNum(b.value.bytes[i]) ]))
           [] datainfo.type = "array" ->
                LET inner_np_dtype == secop_dtype_to_numpy_dtype(datainfo.members[1]) IN
                IF inner_np_dtype.err # NoError THEN inner_np_dtype
                ELSE NpArray(v, inner_np_dtype.value)
           [] datainfo.type = "tuple" ->
                LET structured_np_dtype == structured_dtype(datainfo.members)
                    row == TupleOf(v) IN
                IF structured_np_dtype.err # NoError THEN structured_np_dtype
                ELSE IF row.err # NoError THEN row
                ELSE NpRecordArray(row.value, structured_np_dtype.value)
           [] datainfo.type = "struct" ->
                LET structured_np_dtype == structured_dtype(datainfo.members) IN
                IF structured_np_dtype.err # NoError THEN structured_np_dtype
                ELSE IF v.py # "dict"
                THEN Raised("AttributeError", "object has no attribute 'items'")
                ELSE StructRow(v, datainfo, structured_np_dtype.value)
           [] OTHER -> Raised("SecopError", "Cannot handle SECoP dtype")

\* value / datainfo["scale"], then round()
OverScale(obj, scale) ==
    IF obj.py \notin {"number", "bool"}
    THEN Raised("TypeError", "unsupported operand type(s) for /")
    ELSE IF scale = 0 THEN Raised("ZeroDivisionError", "division by zero")
    ELSE Ok(PyNum(RoundDiv(IF obj.py = "number" THEN obj.num
                           ELSE IF obj.bool THEN 1 ELSE 0, scale)))

\* the code points chr() is given for the elements of a blob value
CodePoints(arr) == [ i \in 1..Len(arr.items) |-> arr.items[i].num ]

\* SecopAttributeIO.encode: the JSON text is the value returned
encode(obj, datainfo) ==
    CASE datainfo.type \in {"int", "bool", "double", "string", "enum"} ->
            json_dumps(obj)
      [] datainfo.type = "scaled" ->
            IF datainfo.scale = None THEN Raised("KeyError", "scale")
            ELSE LET q == OverScale(obj, datainfo.scale[1]) IN
                 IF q.err # NoError THEN q ELSE json_dumps(q.value)
      [] datainfo.type = "blob" ->
            IF obj.py # "ndarray" THEN Raised("AssertionError", "")
            ELSE json_dumps(PyBytes(b64encode(Utf8(CodePoints(obj)))))
      [] datainfo.type \in {"array", "tuple"} ->
            IF obj.py # "ndarray" THEN Raised("AssertionError", "")
            ELSE json_dumps(ToList(obj))
      [] OTHER -> Raised("SecopError", "Cannot handle SECoP dtype")

\* sep.join(parts) of strings
RECURSIVE JoinStr(_, _)
JoinStr(parts, sep) ==
    IF parts = <<>> THEN ""
    ELSE IF Len(parts) = 1 THEN parts[1]
    ELSE parts[1] \o sep \o JoinStr(Tail(parts), sep)

\* the characters json.dumps writes for a document
RECURSIVE JsonText(_)
JsonText(doc) ==
    CASE doc.json = "null"   -> "null"
      [] doc.json = "number" -> ToString(doc.jnum)
      [] doc.json = "bool"   -> IF doc.jbool THEN "true" ELSE "false"
      [] doc.json = "string" -> "\"" \o JoinStr(doc.jstr, "") \o "\""
      [] doc.json = "array"  ->
            "[" \o JoinStr([ i \in 1..Len(doc.jarr) |-> JsonText(doc.jarr[i]) ], ", ")
                \o "]"
      [] doc.json = "object" ->
            "{" \o JoinStr([ i \in 1..Len(doc.jvals) |->
                                "\"" \o doc.jkeys[i] \o "\": " \o JsonText(doc.jvals[i]) ],
                           ", ") \o "}"

\* the text an attribute shows for the value it holds
RECURSIVE PyRepr(_)
PyRepr(obj) ==
    CASE obj.py = "None"    -> "None"
      [] obj.py = "number"  -> ToString(obj.num)
      [] obj.py = "bool"    -> IF obj.bool THEN "True" ELSE "False"
      [] obj.py = "str"     -> JoinStr(obj.str, "")
      [] obj.py = "enum"    -> "<enum_type: " \o ToString(obj.member) \o ">"
      [] obj.py = "list"    ->
            "[" \o JoinStr([ i \in 1..Len(obj.list) |-> PyRepr(obj.list[i]) ], ", ") \o "]"
      [] obj.py = "tuple"   ->
            "(" \o JoinStr([ i \in 1..Len(obj.tuple) |-> PyRepr(obj.tuple[i]) ], ", ") \o ")"
      [] obj.py = "ndarray" ->
            "array(" \o JoinStr([ i \in 1..Len(obj.items) |-> PyRepr(obj.items[i]) ], ", ")
                     \o ")"
      [] OTHER -> "<object>"

\* values of the attribute's data type that a client may write
WriteValuesFor(a) ==
    CASE a.dtype \in {"Float", "Int"} -> { PyNum(2) }
      [] a.dtype = "Bool" -> { PyBool(TRUE) }
      [] a.dtype = "Enum" -> { PyEnum(n) : n \in a.info.values }
      [] a.dtype \in {"String", "String65536"} -> { PyStr(<< "2" >>) }
      [] a.dtype = "Waveform" ->
            { NdArray(IF a.datainfo = "blob" THEN NpDtype("uint8")
                      ELSE secop_dtype_to_numpy_dtype(a.info.members[1]).value,
                      1, << PyNum(2) >>) }
      [] a.dtype = "Table" ->
            { NdRecords(structured_dtype(a.info.members).value,
                        << PyTuple([ i \in 1..Len(a.info.members) |-> PyNum(2) ]) >>) }
      [] OTHER -> {}

\* the encoded value send() hands to secop_change
Encoded(a, v) ==
    IF a.io = "typed" THEN JsonText(encode(v, a.info).value) ELSE JoinStr(v.str, "")

\* ------------------------------------------------------------ attribute IO
\* the attributes registered with the attribute host
RegisteredAttrs ==
    UNION { { subs[i].attrs[j] : j \in 1..Len(subs[i].attrs) } : i \in 1..Len(subs) }

AttrOf(key) ==
    CHOOSE a \in RegisteredAttrs : <<a.module, a.accessible>> = key

\* the JSON text a payload token names
JsonPayload(text) ==
    CASE text = "[1,{}]" -> JsonTextOf(JArr(<< JNum(1), JObj(<<>>, <<>>) >>))
      [] OTHER           -> NotJson

\* variant of ReadError: any line that starts with "reply" is accepted
ReadError_anyReply(reply, m, a) ==
    IF Strip(reply) = <<>> \/ Strip(reply)[1] # "reply"
    THEN Raise("SecopError", "read")
    ELSE NoError

\* secop_read after the reply has arrived: the error it raises
ReadError(reply, m, a) ==
    IF ~StartsWith(Strip(reply), ReadPrefix(m, a))
    THEN Raise("SecopError", "read")
    ELSE NoError

\* secop_read: response[len(prefix):]
ReadPayload(reply, m, a) == AfterPrefix(Strip(reply), ReadPrefix(m, a))

\* secop_change after the reply has arrived: the error it raises
ChangeError(reply, m, a) ==
    IF ~StartsWith(Strip(reply), ChangedPrefix(m, a))
    THEN Raise("SecopError", "change")
    ELSE NoError

\* the JSON text of a payload as json.loads reads it: white space between
\* its tokens is insignificant; any other payload of several tokens is not a
\* JSON text
PayloadText(payload) ==
    LET toks == SelectSeq(payload, LAMBDA x : x \notin Whitespace) IN
    IF Len(toks) = 1 THEN toks[1]
    ELSE IF toks = <<"[1,", "{}]">> THEN "[1,{}]"
    ELSE "not_json"

IoEnds(t, how) ==
    /\ pc' = [ pc EXCEPT ![t] = "idle" ]
    /\ outcome' = [ outcome EXCEPT ![t] = how ]
    /\ target' = [ target EXCEPT ![t] = NoTarget ]

\* update(): secop_read enters send_query(f"read {module}:{accessible}\n")
PollStart(t) ==
    /\ pc["init"] = "done"
    /\ pc[t] = "idle"
    /\ \E a \in RegisteredAttrs :
         /\ target' = [ target EXCEPT ![t] = <<a.module, a.accessible>> ]
         /\ SendQueryWrite(t, ReadRequest(a.module, a.accessible))
    /\ pc' = [ pc EXCEPT ![t] = "read_wait" ]
    /\ outcome' = [ outcome EXCEPT ![t] = "running" ]
    /\ UNCHANGED <<cfgVars, err, initVars, pingConnects, value>>

\* variant of RawUpdate: the payload is decoded, its metadata dropped
RawUpdate_decodes(payload) ==
    << PyRepr(decode(JsonPayload(PayloadText(payload)),
                     Datainfo("string", None, <<>>, <<>>, {})).value) >>

\* SecopRawAttributeIO.update: attr.update(raw_value), the text as returned
\* by secop_read
RawUpdate(payload) == payload

\* update(): the reply is checked, decoded and stored; a value is held as
\* the sequence of the tokens of its text
PollReply(t) ==
    /\ pc[t] = "read_wait"
    /\ SendQueryReturn(t)
    /\ LET a == AttrOf(target[t])
           e == ReadError(Response, a.module, a.accessible)
           payload == ReadPayload(Response, a.module, a.accessible) IN
       IF e # NoError
       THEN /\ IoEnds(t, "logged")
            /\ UNCHANGED value
       ELSE IF a.io = "raw"
       THEN /\ IoEnds(t, "updated")
            /\ value' = [ value EXCEPT ![target[t]] = RawUpdate(payload) ]
       ELSE \E text \in { JsonPayload(PayloadText(payload)) } :
            \E d \in { decode(text, a.info) } :
            IF d.err # NoError
            THEN /\ IoEnds(t, "logged")
                 /\ UNCHANGED value
            ELSE /\ IoEnds(t, "updated")
                 /\ value' = [ value EXCEPT ![target[t]] = << PyRepr(d.value) >> ]
    /\ UNCHANGED <<cfgVars, err, initVars, pingConnects>>

\* variant of PollLost: the poll that lost its query reconnects by itself
PollLost_reconnects(t) ==
    /\ pc[t] = "read_wait"
    /\ req[t].line # <<>>
    /\ ~req[t].live
    /\ lock' = NoTask
    /\ IF peerUp
       THEN /\ connOpen' = TRUE
            /\ req' = [ u \in Tasks |-> IF u = t THEN NoReq
                                        ELSE [ req[u] EXCEPT !.live = FALSE ] ]
            /\ pending' = <<>>
            /\ replies' = <<>>
       ELSE /\ req' = [ req EXCEPT ![t] = NoReq ]
            /\ UNCHANGED <<connOpen, pending, replies>>
    /\ IoEnds(t, "absorbed")
    /\ UNCHANGED <<peerUp, sentAfterInit, cfgVars, err, initVars, pingConnects,
                   value>>

\* update(): except ConnectionError: pass
PollLost(t) ==
    /\ pc[t] = "read_wait"
    /\ SendQueryRaise(t)
    /\ IoEnds(t, "absorbed")
    /\ UNCHANGED <<cfgVars, err, initVars, pingConnects, value>>

Writable == { a \in RegisteredAttrs : a.access = "RW" }

\* send(): encode raises, the exception is logged and nothing is sent
WriteEncodeFails ==
    /\ pc["init"] = "done"
    /\ pc["write"] = "idle"
    /\ \E a \in Writable :
         /\ a.io = "typed"
         /\ \E v \in WriteValuesFor(a) : encode(v, a.info).err # NoError
    /\ outcome' = [ outcome EXCEPT !["write"] = "logged" ]
    /\ UNCHANGED <<connVars, cfgVars, pc, err, initVars, pingConnects, ioVars,
                   sentAfterInit>>

\* variant of WriteStart: a value that encode rejects is sent as str(value)
WriteStart_sendsUnencoded ==
    /\ pc["init"] = "done"
    /\ pc["write"] = "idle"
    /\ \E a \in Writable :
       \E v \in WriteValuesFor(a) :
         /\ target' = [ target EXCEPT !["write"] = <<a.module, a.accessible>> ]
         /\ SendQueryWrite("write",
                ChangeRequest(a.module, a.accessible,
                              IF a.io = "typed" /\ encode(v, a.info).err # NoError
                              THEN PyRepr(v) ELSE Encoded(a, v)))
    /\ pc' = [ pc EXCEPT !["write"] = "change_wait" ]
    /\ outcome' = [ outcome EXCEPT !["write"] = "running" ]
    /\ UNCHANGED <<cfgVars, err, initVars, pingConnects, value>>

\* send(): secop_change enters send_query(f"change {module}:{accessible} ...")
WriteStart ==
    /\ pc["init"] = "done"
    /\ pc["write"] = "idle"
    /\ \E a \in Writable :
       \E v \in WriteValuesFor(a) :
         /\ a.io = "typed" => encode(v, a.info).err = NoError
         /\ target' = [ target EXCEPT !["write"] = <<a.module, a.accessible>> ]
         /\ SendQueryWrite("write", ChangeRequest(a.module, a.accessible, Encoded(a, v)))
    /\ pc' = [ pc EXCEPT !["write"] = "change_wait" ]
    /\ outcome' = [ outcome EXCEPT !["write"] = "running" ]
    /\ UNCHANGED <<cfgVars, err, initVars, pingConnects, value>>

\* send(): the reply is checked
WriteReply ==
    /\ pc["write"] = "change_wait"
    /\ SendQueryReturn("write")
    /\ LET a == AttrOf(target["write"]) IN
       IF ChangeError(Response, a.module, a.accessible) # NoError
       THEN IoEnds("write", "logged")
       ELSE IoEnds("write", "sent")
    /\ UNCHANGED <<cfgVars, err, initVars, pingConnects, value>>

\* send(): except ConnectionError: pass
WriteLost ==
    /\ pc["write"] = "change_wait"
    /\ SendQueryRaise("write")
    /\ IoEnds("write", "absorbed")
    /\ UNCHANGED <<cfgVars, err, initVars, pingConnects, value>>

AttributeIO ==
    \/ \E t \in PollTasks : PollStart(t)
    \/ \E t \in PollTasks : PollReply(t)
    \/ \E t \in PollTasks : PollLost(t)
    \/ WriteEncodeFails
    \/ WriteStart
    \/ WriteReply
    \/ WriteLost

\* ----------------------------------------------------------- the system
Environment ==
    \/ PeerDown
    \/ PeerRestored
    \/ PeerReply

Next ==
    \/ Initialise
    \/ Ping
    \/ AttributeIO
    \/ Environment

Spec == Init /\ [][Next]_vars

\* The event loop resumes every coroutine whose awaited query has completed,
\* the node answers the requests it has received, the scheduler keeps
\* starting the probe, and the connection is handed to its waiters in turn.
Fairness ==
    /\ WF_vars(PeerReply)
    /\ SF_vars(PingStart)
    /\ WF_vars(PingReply)
    /\ WF_vars(PingLost)
    /\ WF_vars(PingConnect)
    /\ SF_vars(PingSendDeactivate)
    /\ WF_vars(PingDeactivateReply)
    /\ WF_vars(PingDeactivateLost)
    /\ \A t \in PollTasks : WF_vars(PollReply(t)) /\ WF_vars(PollLost(t))
    /\ WF_vars(WriteReply)
    /\ WF_vars(WriteLost)

FairSpec == Spec /\ Fairness

TypeOK ==
    /\ peerUp \in BOOLEAN
    /\ connOpen \in BOOLEAN
    /\ lock \in Tasks \cup {NoTask}
    /\ pingConnects \in 0..2

\* ------------------------------------------------ the schema mapper alone
\* The module loop of initialise() over the descriptions and quirks below,
\* started where the reply to describe has just been received and parsed,
\* and followed by writes to the attributes it registered.
TypeNames ==
    { "double", "scaled", "int", "bool", "enum", "string", "blob",
      "array", "tuple", "struct", "command", "weird" }

\* datainfo["members"] of an array, a tuple or a struct
MemberChoices(type) ==
    CASE type = "array"              -> { <<"double">>, <<"array">> }
      [] type \in {"tuple", "struct"} -> { <<"double", "int">>, <<"double", "struct">> }
      [] OTHER                       -> { <<>> }

ReadonlyChoices == { "true", "false", "absent" }

DescriptionChoices ==
    { [ has |-> FALSE, text |-> <<>> ],
      [ has |-> TRUE, text |-> <<>> ],
      [ has |-> TRUE, text |-> <<"a", "b">> ],
      [ has |-> TRUE, text |-> <<"a", "b", "c", "d", "e">> ] }

LimitChoices == { None } \cup { Some(n) : n \in 0..MaxDescLimit }

PairChoices == { {}, { <<"m1", "x">> }, { <<"m2", "x">> } }

AccY == AccD("y", "int", "true", <<>>, TRUE, <<"a", "b">>)

\* one module m1 with accessibles x, of every type, and y; every
\* combination of the skip and raw quirks
TypeInputs ==
    UNION { { [ modules |-> << Mod("m1", << AccD("x", ty, ro, mem, TRUE, <<"a", "b">>),
                                            AccY >>) >>,
                quirks  |-> MkQuirks({}, sa, ra, f[1], f[2], f[3]) ] :
              ro \in ReadonlyChoices, mem \in MemberChoices(ty),
              sa \in PairChoices, ra \in PairChoices,
              f \in BOOLEAN \X BOOLEAN \X BOOLEAN } : ty \in TypeNames }

\* descriptions of every length, present or absent, under every limit
DescriptionInputs ==
    { [ modules |-> << Mod("m1", << AccD("x", ty, "false", <<"double", "int">>, d.has, d.text) >>) >>,
        quirks  |-> [ MkQuirks({}, {}, {}, FALSE, FALSE, rs)
                        EXCEPT !.max_description_length = lim ] ] :
      ty \in {"double", "string", "struct"}, d \in DescriptionChoices,
      lim \in LimitChoices, rs \in BOOLEAN }

\* quirks.update_period: the default and another period
PeriodChoices == { DefaultQuirks.update_period, 5 }

\* two modules under every choice of skipped modules and of the poll period
ModuleInputs ==
    { [ modules |-> << Mod("m1", << AccD("x", t1, "false", <<>>, TRUE, <<"a", "b">>) >>),
                       Mod("m2", << AccD("x", t2, "false", <<>>, TRUE, <<"a", "b">>) >>) >>,
        quirks  |-> [ MkQuirks(sm, sa, {}, FALSE, FALSE, FALSE)
                        EXCEPT !.update_period = up ] ] :
      t1 \in {"double", "weird"}, t2 \in {"int", "weird", "command"},
      sm \in SUBSET {"m1", "m2", "m3"}, sa \in PairChoices,
      up \in PeriodChoices }

MapInputs == TypeInputs \cup DescriptionInputs \cup ModuleInputs

MapInit ==
    /\ \E in \in MapInputs :
          /\ nodeModules = in.modules
          /\ quirks = in.quirks
    /\ fn = FnIdle
    /\ peerUp = TRUE
    /\ connOpen = TRUE
    /\ lock = NoTask
    /\ req = [ t \in Tasks |-> NoReq ]
    /\ pending = <<>>
    /\ replies = <<>>
    /\ pc = [ t \in Tasks |-> IF t = "init" THEN "map" ELSE "idle" ]
    /\ err = [ t \in Tasks |-> NoError ]
    /\ outcome = [ t \in Tasks |-> "none" ]
    /\ log = <<"connect", "*IDN?", "deactivate", "describe">>
    /\ identification = <<>>
    /\ descriptor = DescribePrefix \o <<"doc_node", NL>>
    /\ initK = 0
    /\ subs = <<>>
    /\ pingConnects = 0
    /\ target = [ t \in Tasks |-> NoTarget ]
    /\ value = [ k \in AttrKeys |-> <<"init">> ]
    /\ sentAfterInit = {}

\* the module loop, then writes to the registered attributes
MapNext ==
    \/ InitMapModule
    \/ InitReturn
    \/ WriteEncodeFails
    \/ WriteStart
    \/ PeerReply
    \/ WriteReply

MapSpec == MapInit /\ [][MapNext]_vars

\* ------------------------------------------- the functions on their own
\* encode, decode, format_string_to_prec, secop_dtype_to_numpy_dtype and the
\* mapping of one accessible, each applied to arguments drawn from the sets
\* below.

\* the largest magnitude of a value written to a scaled parameter, and of a
\* raw integer a scaled parameter reports
MaxWritten == 60
MaxRaw == 45

ScaleChoices == { 1, 2, 4, 47 }

TypeOnly(type) == Datainfo(type, None, <<>>, <<>>, {})

ScaledBy(s) == Datainfo("scaled", Some(s), <<>>, <<>>, {})

ArrayOf(type) == Datainfo("array", None, << MemberInfo(type) >>, <<>>, {})

TupleOfTypes(types) ==
    Datainfo("tuple", None, [ i \in 1..Len(types) |-> MemberInfo(types[i]) ], <<>>, {})

StructOfTypes(types) ==
    Datainfo("struct", None, [ i \in 1..Len(types) |-> MemberInfo(types[i]) ],
             [ i \in 1..Len(types) |-> DecimalDigits[i + 1] ], {})

EnumOf(values) == Datainfo("enum", None, <<>>, <<>>, values)

Nums(ns) == [ i \in 1..Len(ns) |-> PyNum(ns[i]) ]

\* an attribute value of each data type, with the datainfo it belongs to
WrittenInputs ==
    { [ datainfo |-> TypeOnly(ty), obj |-> PyNum(n) ] :
        ty \in {"int", "double"}, n \in {-1, 0, 42} }
    \cup { [ datainfo |-> TypeOnly("bool"), obj |-> PyBool(b) ] : b \in BOOLEAN }
    \cup { [ datainfo |-> TypeOnly("string"), obj |-> PyStr(s) ] :
             s \in { <<>>, << "h", "i" >> } }
    \cup { [ datainfo |-> EnumOf({1, 2, 3}), obj |-> PyEnum(n) ] : n \in {1, 2, 3} }
    \cup { [ datainfo |-> ScaledBy(s), obj |-> PyNum(n) ] :
             s \in ScaleChoices, n \in (0 - MaxWritten)..MaxWritten }
    \cup { [ datainfo |-> TypeOnly("blob"),
             obj |-> NdArray(NpDtype("uint8"), 1, Nums(bs)) ] :
             bs \in { <<>>, << 97 >>, << 97, 98 >>, << 97, 98, 99 >>, << 200, 0, 255, 16 >> } }
    \cup { [ datainfo |-> ArrayOf("double"),
             obj |-> NdArray(NpDtype("float64"), 1, Nums(ns)) ] :
             ns \in { <<>>, << 1 >>, << 1, 2, 3 >> } }
    \cup { [ datainfo |-> ArrayOf("int"),
             obj |-> NdArray(NpDtype("int32"), 1, Nums(<< 5, 8 >>)) ],
           [ datainfo |-> ArrayOf("bool"),
             obj |-> NdArray(NpDtype("uint8"), 1, Nums(<< 1, 0 >>)) ],
           [ datainfo |-> TupleOfTypes(<< "double", "int" >>),
             obj |-> NdRecords(<< NpDtype("float64"), NpDtype("int32") >>,
                               << PyTuple(Nums(<< 1, 2 >>)) >>) ],
           [ datainfo |-> StructOfTypes(<< "double", "int" >>),
             obj |-> NdRecords(<< NpDtype("float64"), NpDtype("int32") >>,
                               << PyTuple(Nums(<< 1, 2 >>)) >>) ],
           [ datainfo |-> TypeOnly("weird"), obj |-> PyNum(1) ] }

\* the data report [value, qualifiers] of a value
Report(doc) == JArr(<< doc, JObj(<<>>, <<>>) >>)

JNums(ns) == JArr([ i \in 1..Len(ns) |-> JNum(ns[i]) ])

\* a payload received for a parameter, with the parameter's datainfo
ReceivedInputs ==
    { [ datainfo |-> ScaledBy(s), text |-> JsonTextOf(Report(JNum(r))) ] :
        s \in ScaleChoices, r \in (0 - MaxRaw)..MaxRaw }
    \cup { [ datainfo |-> TypeOnly(ty), text |-> tx ] :
             ty \in {"int", "double", "bool", "string", "weird"},
             tx \in { JsonTextOf(Report(JNum(42))), JsonTextOf(JNum(42)),
                      JsonTextOf(JArr(<<>>)), NotJson } }
    \cup { [ datainfo |-> EnumOf({1, 2, 3}), text |-> JsonTextOf(Report(JNum(n))) ] :
             n \in {3, 7} }
    \cup { [ datainfo |-> TypeOnly("blob"), text |-> JsonTextOf(Report(JStr(s))) ] :
             s \in { << "Y", "W", "J", "j" >>, << "Y", "Q", "=", "=" >>, << "Y", "Q">> } }
    \cup { [ datainfo |-> ArrayOf(ty), text |-> JsonTextOf(Report(d)) ] :
             ty \in TypeNames,
             d \in { JNums(<< 1, 2 >>), JArr(<< JStr(<< "a", "b" >>) >>) } }
    \cup { [ datainfo |-> TupleOfTypes(<< "double", ty >>),
             text |-> JsonTextOf(Report(JNums(<< 1, 2 >>))) ] : ty \in TypeNames }
    \cup { [ datainfo |-> StructOfTypes(<< "double", ty >>),
             text |-> JsonTextOf(Report(JObj(<< "1", "2" >>, << JNum(1), JNum(2) >>))) ] :
             ty \in TypeNames }

\* the largest N of the format strings "%.<N>f" that are tried in full
MaxPrec == 12

FmtF(digits) == << "%", "." >> \o digits \o << "f" >>

\* format strings: None, "%.<N>f", and strings of other shapes
FmtChoices ==
    { None }
    \cup { Some(FmtF(StrOfInt(n))) : n \in (0..MaxPrec) \cup {99} }
    \cup { Some(s) : s \in { <<>>, << "f" >>, << "%", "f" >>, << "%", "." >>,
                            << "%", ".", "5", "g" >>, << "%", ".", "5", "e" >>,
                            << "%", "5", ".", "2", "f" >>,
                            << "%", ".", "2", "f", SP >>,
                            FmtF(<<>>), FmtF(<< "x" >>), FmtF(<< "1", ".", "5" >>),
                            FmtF(<< "-", "1" >>), FmtF(<< "+", "2" >>),
                            FmtF(<< "0", "3" >>), FmtF(<< "1", "_", "0" >>),
                            FmtF(<< SP, "4", SP >>) } }

MemberInputs ==
    { [ type |-> ty, maxchars |-> mc ] :
        ty \in TypeNames, mc \in { None, Some(0), Some(1), Some(16) } }

\* accessibles of the floating types with every combination of the numeric
\* keys, and composites with members of every type
AccessibleInputs ==
    { WithNumeric(Acc("x", ty, "false", <<>>), sc, mn, mx, fmt) :
        ty \in {"double", "scaled"}, sc \in { None, Some(2), Some(47) },
        mn \in { None, Some(-3), Some(0) }, mx \in { None, Some(5) },
        fmt \in FmtChoices }
    \cup { Acc("x", "array", "false", << ty >>) : ty \in TypeNames }
    \cup { Acc("x", cty, "false", << "double", ty >>) :
             cty \in {"tuple", "struct"}, ty \in TypeNames }

FnCase(kind) ==
    [ stage |-> "input", kind |-> kind, datainfo |-> NoDatainfo, obj |-> PyNone,
      text |-> NotJson, fmtstr |-> None, member |-> MemberInfo("none"),
      acc |-> Acc("", "none", "absent", <<>>),
      encoded |-> NoCall, decoded |-> NoCall, result |-> NoCall,
      registered |-> [ err |-> NoError, attrs |-> <<>> ] ]

FnInputs ==
    { [ FnCase("written") EXCEPT !.datainfo = w.datainfo, !.obj = w.obj ] :
        w \in WrittenInputs }
    \cup { [ FnCase("received") EXCEPT !.datainfo = r.datainfo, !.text = r.text ] :
             r \in ReceivedInputs }
    \cup { [ FnCase("fmtstr") EXCEPT !.fmtstr = f ] : f \in FmtChoices }
    \cup { [ FnCase("member") EXCEPT !.member = m ] : m \in MemberInputs }
    \cup { [ FnCase("accessible") EXCEPT !.acc = a ] : a \in AccessibleInputs }

FnInit ==
    /\ fn \in FnInputs
    /\ peerUp = FALSE
    /\ connOpen = FALSE
    /\ lock = NoTask
    /\ req = [ t \in Tasks |-> NoReq ]
    /\ pending = <<>>
    /\ replies = <<>>
    /\ quirks = DefaultQuirks
    /\ nodeModules = <<>>
    /\ pc = [ t \in Tasks |-> "idle" ]
    /\ err = [ t \in Tasks |-> NoError ]
    /\ outcome = [ t \in Tasks |-> "none" ]
    /\ log = <<>>
    /\ identification = <<>>
    /\ descriptor = <<>>
    /\ initK = 0
    /\ subs = <<>>
    /\ pingConnects = 0
    /\ target = [ t \in Tasks |-> NoTarget ]
    /\ value = [ k \in AttrKeys |-> <<"init">> ]
    /\ sentAfterInit = {}

FnUnchanged ==
    UNCHANGED <<connVars, quirks, nodeModules, pc, err, outcome, initVars,
                pingConnects, ioVars, sentAfterInit>>

\* encode(value, datainfo)
FnEncode ==
    /\ fn.stage = "input"
    /\ fn.kind = "written"
    /\ fn' = [ fn EXCEPT !.stage = "encoded", !.encoded = encode(fn.obj, fn.datainfo) ]
    /\ FnUnchanged

\* decode(encode(value, datainfo), datainfo, attr)
FnDecode ==
    /\ fn.stage = "encoded"
    /\ fn.encoded.err = NoError
    /\ fn' = [ fn EXCEPT !.stage = "decoded",
                         !.decoded = decode(JsonTextOf(fn.encoded.value), fn.datainfo) ]
    /\ FnUnchanged

\* update() after send(): decode of the data report in which the node
\* returns the value it was sent
FnReadBack ==
    /\ fn.stage = "encoded"
    /\ fn.encoded.err = NoError
    /\ fn' = [ fn EXCEPT !.stage = "readback",
                         !.result = decode(JsonTextOf(Report(fn.encoded.value)),
                                           fn.datainfo) ]
    /\ FnUnchanged

\* decode(value, datainfo, attr) of a received payload
FnReceive ==
    /\ fn.stage = "input"
    /\ fn.kind = "received"
    /\ fn' = [ fn EXCEPT !.stage = "done", !.result = decode(fn.text, fn.datainfo) ]
    /\ FnUnchanged

\* format_string_to_prec(fmt_str)
FnFormatPrec ==
    /\ fn.stage = "input"
    /\ fn.kind = "fmtstr"
    /\ fn' = [ fn EXCEPT !.stage = "done", !.result = format_string_to_prec(fn.fmtstr) ]
    /\ FnUnchanged

\* secop_dtype_to_numpy_dtype(secop_datainfo)
FnNumpyDtype ==
    /\ fn.stage = "input"
    /\ fn.kind = "member"
    /\ fn' = [ fn EXCEPT !.stage = "done",
                         !.result = secop_dtype_to_numpy_dtype(fn.member) ]
    /\ FnUnchanged

\* SecopModuleController.initialise of a module that has the one accessible
FnRegister ==
    /\ fn.stage = "input"
    /\ fn.kind = "accessible"
    /\ fn' = [ fn EXCEPT !.stage = "done",
                         !.registered = ModuleInitialise(Mod("m1", << fn.acc >>), quirks) ]
    /\ FnUnchanged

FnNext ==
    \/ FnEncode
    \/ FnDecode
    \/ FnReadBack
    \/ FnReceive
    \/ FnFormatPrec
    \/ FnNumpyDtype
    \/ FnRegister

FnSpec == FnInit /\ [][FnNext]_vars

\* =================================================================== claims

\* the handshake of initialise(), in order
HandshakeOrder == <<"connect", "*IDN?", "deactivate", "describe">>

\* the names of the registered sub-controllers, in order of registration
RegisteredNames == [ i \in 1..Len(subs) |-> subs[i].name ]

\* C1: the steps of initialise() are taken in the order connect, *IDN?,
\* deactivate, describe, none of them twice; once the description has been
\* parsed each has been taken exactly once, and no sub-controller is
\* registered before the reply to describe has been received and parsed.
C1_HandshakeOrder ==
    /\ Len(log) <= Len(HandshakeOrder)
    /\ log = SubSeq(HandshakeOrder, 1, Len(log))
    /\ pc["init"] \in {"map", "done"} => log = HandshakeOrder
    /\ subs # <<>> =>
          /\ log = HandshakeOrder
          /\ descriptor # <<>>
          /\ ParseDescribe(descriptor) = NoError

C1_Witness ==
    /\ pc["init"] = "done"
    /\ Len(subs) = 2
    /\ log = HandshakeOrder

\* the fields of the identification as the claim reads them
IdnFields == Split(identification, ",")

IdnAcceptable ==
    /\ Len(IdnFields) = 4
    /\ IdnFields[1] \in { <<"ISSE&SINE2020">>, <<"ISSE">> }
    /\ IdnFields[2] = <<"SECoP">>

\* C2: check_idn() succeeds exactly for a 4-field reply whose manufacturer
\* is ISSE&SINE2020 or ISSE and whose product is SECoP; for every other
\* reply it fails with a SecopError naming the offending field, the
\* manufacturer being checked before the product.
C2_IdnContract ==
    identification # <<>> =>
        IF IdnAcceptable
        THEN pc["init"] = "deact_send"
        ELSE /\ pc["init"] = "failed"
             /\ err["init"].type = "SecopError"
             /\ err["init"].what \in {"manufacturer", "product"}
             /\ (Len(IdnFields) >= 1 /\ IdnFields[1] \notin Manufacturers)
                    => err["init"].what = "manufacturer"

\* the text after the prefix of the reply to describe is a JSON document
DescribeWellFormed ==
    /\ StartsWith(descriptor, DescribePrefix)
    /\ LET text == Strip(AfterPrefix(descriptor, DescribePrefix)) IN
          Len(text) = 1 /\ text[1] \in DocTexts \ {"not_json"}

\* C3: if the reply to describe lacks the prefix "describing . " or the
\* text after the prefix is not well-formed JSON, initialise() fails with a
\* SecopError and no sub-controller is registered.
C3_DescribeRejected ==
    (descriptor # <<>> /\ ~DescribeWellFormed) =>
        /\ pc["init"] = "failed"
        /\ err["init"].type = "SecopError"
        /\ subs = <<>>

\* C4: whenever initialise() fails, the failure reaches the caller and no
\* sub-controller has been registered.
C4_AllOrNothing ==
    pc["init"] = "failed" =>
        /\ err["init"] # NoError
        /\ subs = <<>>

\* the names of the modules among the first k of the description that the
\* quirks do not skip
RECURSIVE NonSkipped(_)
NonSkipped(k) ==
    IF k = 0 THEN <<>>
    ELSE IF Modules[k].name \in quirks.skip_modules THEN NonSkipped(k - 1)
    ELSE Append(NonSkipped(k - 1), Modules[k].name)

\* C4 (amended): whenever initialise() fails, the failure reaches the
\* caller; a failure before the module loop leaves no sub-controller
\* registered, and a failure while mapping the k-th module leaves exactly
\* the non-skipped modules before it registered, the k-th itself not.
C4_FailureKeepsEarlierModules ==
    pc["init"] = "failed" =>
        /\ err["init"] # NoError
        /\ IF initK = 0
           THEN subs = <<>>
           ELSE /\ RegisteredNames = NonSkipped(initK - 1)
                /\ \A i \in 1..Len(subs) : subs[i].name # Modules[initK].name

C4_Witness ==
    /\ pc["init"] = "failed"
    /\ initK = 2
    /\ Len(subs) = 1

\* C5: in a call of ping(), connect() is not called when the ping query
\* returns a reply, and is called exactly once when the query fails with
\* ConnectionError, whether that connect() succeeds or fails.
C5_OneConnectPerPing ==
    /\ pingConnects <= 1
    /\ pc["ping"] \in {"ping_wait", "reconnect"} => pingConnects = 0
    /\ outcome["ping"] = "ok" => pingConnects = 0
    /\ pc["ping"] \in {"deact_send", "deact_wait"} => pingConnects = 1
    /\ outcome["ping"] \in {"reconnected", "reconnect_failed"} => pingConnects = 1

C5_Witness ==
    /\ pc["ping"] = "idle"
    /\ outcome["ping"] = "reconnected"
    /\ pingConnects = 1

\* C6: no exception escapes ping(): whatever the ping query, connect() and
\* deactivate() do, ping() returns to the scheduler, which can start the
\* next probe.
C6_PingNeverRaises ==
    /\ err["ping"] = NoError
    /\ pc["ping"] \in {"idle", "ping_wait", "reconnect", "deact_send", "deact_wait"}
    /\ outcome["ping"] # "raised"

C6_Witness ==
    /\ pc["ping"] = "idle"
    /\ outcome["ping"] = "reconnect_failed"
    /\ ~connOpen
    /\ err["ping"] = NoError

\* C7: once initialise() has returned, no step sends describe or *IDN?
\* again, and the registered sub-controllers and their attributes stay as
\* they were.
C7_NoRediscovery ==
    [][ pc["init"] = "done" =>
            /\ pc'["init"] = "done"
            /\ subs' = subs
            /\ "describe" \notin sentAfterInit'
            /\ "*IDN?" \notin sentAfterInit' ]_vars

C7_Witness ==
    /\ pc["init"] = "done"
    /\ subs # <<>>
    /\ outcome["ping"] = "reconnected"
    /\ {"ping", "deactivate", "read"} \subseteq sentAfterInit

\* the tasks with a request written and its reply not yet returned
InFlight == { t \in Tasks : req[t].line # <<>> }

\* C9: at most one query is in flight on the connection: no request line
\* is written while another request is still waiting for its reply.
C9_OneQueryInFlight ==
    /\ Cardinality(InFlight) <= 1
    /\ Len(pending) + Len(replies) <= 1
    /\ \A t \in InFlight : lock = t

C9_Witness ==
    /\ pc["ping"] = "deact_send"
    /\ connOpen
    /\ \E t \in PollTasks : t \in InFlight /\ req[t].live
    /\ pc["write"] = "idle"

\* C10: a reply line waiting to be read is the node's answer to the request
\* of the one task that is waiting for a reply, so send_query returns to
\* each caller the reply to its own request line.
C10_ReplyMatchesRequest ==
    replies # <<>> =>
        /\ req[Head(replies).for].live
        /\ Head(replies).line \in PeerAnswers(req[Head(replies).for].line)
        /\ \A t \in Tasks : req[t].live => t = Head(replies).for

C10_Witness ==
    /\ replies # <<>>
    /\ Head(replies).for \in PollTasks
    /\ pc["ping"] = "deact_send"
    /\ outcome["write"] = "sent"

\* C8: the session has no terminal failed state: if, after initialise(),
\* the node becomes reachable and stays reachable, the probe re-establishes
\* the connection and it stays open from then on, so that polls are
\* answered again. A probe's connect() succeeds whenever the node is
\* reachable, and a probe ends with the connection closed only when its
\* reconnect attempt failed.
C8_SelfHeals ==
    /\ (<>[]peerUp /\ <>(pc["init"] = "done")) => <>[](connOpen /\ peerUp)
    /\ [][ (pc["ping"] = "reconnect" /\ pc'["ping"] # "reconnect" /\ peerUp)
              => (connOpen' /\ pc'["ping"] \in {"deact_send", "deact_wait"}) ]_vars
    /\ [][ (pc["ping"] # "idle" /\ pc'["ping"] = "idle")
              => (connOpen' <=> outcome'["ping"] \in {"ok", "reconnected"}) ]_vars

C8_Witness ==
    /\ pc["init"] = "done"
    /\ outcome["ping"] = "reconnected"
    /\ connOpen
    /\ \E t \in PollTasks : pc[t] = "read_wait" /\ req[t].live

\* the tasks that run attribute IO
IoTasks == PollTasks \cup {"write"}

\* C11: when the query of a poll read or of a write fails with
\* ConnectionError, on a typed or a raw attribute, the operation returns
\* normally, leaves every attribute value as it was and does not call
\* connect(); the connection is only ever opened by initialise() and by the
\* reconnect of ping().
C11_IoAbsorbsConnectionLoss ==
    [][ /\ \A t \in IoTasks :
              ( /\ pc[t] \in {"read_wait", "change_wait"}
                /\ ~req[t].live
                /\ pc'[t] = "idle" ) =>
                    /\ outcome'[t] = "absorbed"
                    /\ err'[t] = NoError
                    /\ value' = value
                    /\ connOpen' = connOpen
                    /\ pingConnects' = pingConnects
                    /\ log' = log
        /\ (~connOpen /\ connOpen') =>
              pc["init"] = "connect" \/ pc["ping"] = "reconnect" ]_vars

C11_Witness ==
    /\ outcome["write"] = "absorbed"
    /\ \E t \in PollTasks : outcome[t] = "absorbed" /\ pc[t] = "idle"
    /\ \E k \in AttrKeys : value[k] # <<"init">>
    /\ \E a \in RegisteredAttrs : a.io = "raw"
    /\ ~connOpen
    /\ peerUp

\* the reply line a poll is about to consume is a reply to its own read
\* request whose payload decodes under the datainfo of its attribute
ReplyUsable(t) ==
    LET k == target[t]
        line == Strip(Head(replies).line)
        prefix == <<"reply", SP, k[1], ":", k[2], SP>> IN
    /\ StartsWith(line, prefix)
    /\ AttrOf(k).io = "typed" =>
          decode(JsonPayload(PayloadText(SubSeq(line, Len(prefix) + 1, Len(line)))),
                 AttrOf(k).info).err = NoError

\* C12: update() changes the value of its attribute only when the reply
\* starts with "reply <module>:<accessible> " for its own module and
\* accessible and the payload decodes under the attribute's datainfo; for
\* every other reply (an error report, a reply for another accessible, a
\* payload that is not JSON or does not decode) update() returns normally
\* and every attribute value stays as it was.
C12_UpdateOnlyOnOwnReply ==
    [][ \A t \in PollTasks :
           ( /\ pc[t] = "read_wait"
             /\ req[t].live
             /\ pc'[t] = "idle" ) =>
                /\ err'[t] = NoError
                /\ \A k \in AttrKeys : k # target[t] => value'[k] = value[k]
                /\ IF ReplyUsable(t)
                   THEN outcome'[t] = "updated"
                   ELSE value' = value /\ outcome'[t] = "logged" ]_vars

C12_Witness ==
    /\ \E t \in PollTasks : outcome[t] = "logged" /\ pc[t] = "idle"
    /\ \E k \in AttrKeys : value[k] = <<"1">> /\ AttrOf(k).io = "typed"
    /\ \E k \in AttrKeys : k \in { <<a.module, a.accessible>> : a \in RegisteredAttrs }
                             /\ value[k] = <<"init">>

\* the names of the modules of the description
DiscoveredNames == { Modules[k].name : k \in 1..Len(Modules) }

\* C13: a module listed in skip_modules is never among the registered
\* sub-controllers, and once initialise() has returned every discovered
\* module that is not listed is registered, once, under its own name.
C13_SkipModules ==
    /\ \A i \in 1..Len(subs) :
          /\ subs[i].name \notin quirks.skip_modules
          /\ subs[i].name \in DiscoveredNames
    /\ pc["init"] = "done" =>
          \A n \in DiscoveredNames \ quirks.skip_modules :
              Cardinality({ i \in 1..Len(subs) : subs[i].name = n }) = 1

C13_Witness ==
    /\ pc["init"] = "done"
    /\ DiscoveredNames = {"m1", "m2"}
    /\ quirks.skip_modules = {"m1", "m3"}
    /\ Len(subs) = 1
    /\ subs[1].name = "m2"

\* the module without the accessibles listed in skip_accessibles
WithoutSkipped(module) ==
    Mod(module.name,
        SelectSeq(module.accessibles,
                  LAMBDA a : <<module.name, a.name>> \notin quirks.skip_accessibles))

\* the sub-controllers registered under a name
SubsNamed(n) == { subs[i] : i \in { j \in 1..Len(subs) : subs[j].name = n } }

\* C14: an accessible listed in skip_accessibles yields no attribute and no
\* error whatever its datainfo is: a module is mapped exactly as the same
\* module with the listed accessibles removed from its description.
C14_SkipAccessibleFirst ==
    /\ \A a \in RegisteredAttrs :
          <<a.module, a.accessible>> \notin quirks.skip_accessibles
    /\ \A k \in 1..initK :
          Modules[k].name \notin quirks.skip_modules =>
              LET r == ModuleInitialise(WithoutSkipped(Modules[k]),
                                        [ quirks EXCEPT !.skip_accessibles = {} ]) IN
              IF r.err = NoError
              THEN SubsNamed(Modules[k].name)
                       = { [ name |-> Modules[k].name, attrs |-> r.attrs ] }
              ELSE /\ pc["init"] = "failed"
                   /\ initK = k
                   /\ err["init"] = r.err

C14_Witness ==
    /\ pc["init"] = "done"
    /\ Len(Modules) = 1
    /\ Modules[1].accessibles[1].type = "weird"
    /\ <<"m1", "x">> \in quirks.skip_accessibles
    /\ Len(subs) = 1
    /\ Len(subs[1].attrs) = 1
    /\ subs[1].attrs[1].name = "y"

\* ---- the description as the claims about the mapper read it
ScalarTypes == { "double", "scaled", "int", "bool", "enum", "string", "blob" }

CompositeTypes == { "array", "tuple", "struct" }

AccAt(k, j) == Modules[k].accessibles[j]

KeyAt(k, j) == <<Modules[k].name, AccAt(k, j).name>>

AccIndexes == { <<k, j>> \in (1..Len(Modules)) \X (1..2) :
                    j <= Len(Modules[k].accessibles) }

SkippedAt(k, j) == KeyAt(k, j) \in quirks.skip_accessibles

\* the type-wide raw quirk that belongs to a type
OwnRawQuirk(type) ==
    CASE type = "array"  -> quirks.raw_array
      [] type = "tuple"  -> quirks.raw_tuple
      [] type = "struct" -> quirks.raw_struct
      [] OTHER           -> FALSE

RawWanted(k, j) ==
    /\ AccAt(k, j).type \in CompositeTypes
    /\ OwnRawQuirk(AccAt(k, j).type) \/ KeyAt(k, j) \in quirks.raw_accessibles

MembersSupported(k, j) ==
    \A i \in 1..Len(AccAt(k, j).members) :
        AccAt(k, j).members[i] \in {"double", "int", "bool", "enum", "string"}

\* the accessible can be dealt with: it is skipped, a command, a scalar, a
\* composite created raw or a composite of supported members
Mappable(k, j) ==
    \/ SkippedAt(k, j)
    \/ AccAt(k, j).type \in ScalarTypes \cup {"command"}
    \/ RawWanted(k, j)
    \/ AccAt(k, j).type \in CompositeTypes /\ MembersSupported(k, j)

\* the loop over the accessibles of module k has come to accessible j
Reached(k, j) ==
    /\ k <= initK
    /\ Modules[k].name \notin quirks.skip_modules
    /\ \A i \in 1..(j - 1) : Mappable(k, i)

\* the loop over the accessibles of module k ended without an error
Registered(k) == SubsNamed(Modules[k].name) # {}

AttrsOf(key) == { a \in RegisteredAttrs : <<a.module, a.accessible>> = key }

\* C15: an array, tuple or struct accessible whose own type-wide quirk
\* (raw_array, raw_tuple, raw_struct) is set, or whose pair is listed in
\* raw_accessibles, becomes a raw string attribute of capacity 65536 bound
\* to a raw IO reference, whatever its member types are; otherwise, and in
\* particular when only the quirk of another type is set, it is mapped as a
\* typed Waveform or Table and its member types are validated.
C15_RawComposite ==
    \A ix \in AccIndexes :
        LET k == ix[1]
            j == ix[2] IN
        ( /\ Reached(k, j)
          /\ ~SkippedAt(k, j)
          /\ AccAt(k, j).type \in CompositeTypes ) =>
            IF RawWanted(k, j)
            THEN /\ Registered(k) \/ \E i \in (j + 1)..2 :
                                        <<k, i>> \in AccIndexes /\ ~Mappable(k, i)
                 /\ Registered(k) =>
                        /\ AttrsOf(KeyAt(k, j)) # {}
                        /\ \A a \in AttrsOf(KeyAt(k, j)) :
                              /\ a.io = "raw"
                              /\ a.dtype = "String65536"
                              /\ a.datainfo = "none"
            ELSE IF MembersSupported(k, j)
            THEN Registered(k) =>
                        /\ AttrsOf(KeyAt(k, j)) # {}
                        /\ \A a \in AttrsOf(KeyAt(k, j)) :
                              /\ a.io = "typed"
                              /\ a.dtype = IF AccAt(k, j).type = "array"
                                           THEN "Waveform" ELSE "Table"
                              /\ a.datainfo = AccAt(k, j).type
            ELSE /\ ~Registered(k)
                 /\ pc["init"] = "failed"
                 /\ initK = k
                 /\ err["init"].type = "SecopError"

C15_Witness ==
    /\ pc["init"] = "done"
    /\ AccAt(1, 1).type = "tuple"
    /\ AccAt(1, 1).members = <<"double", "struct">>
    /\ quirks.raw_tuple /\ ~quirks.raw_array /\ ~quirks.raw_struct
    /\ quirks.raw_accessibles = {}
    /\ \E a \in AttrsOf(<<"m1", "x">>) : a.io = "raw" /\ a.dtype = "String65536"

\* C16: every accessible listed in raw_accessibles that is neither skipped
\* nor a command is created in raw mode, a raw string attribute bound to a
\* raw IO reference, whatever its datainfo type is, the scalar types
\* included.
C16_RawAccessiblesAnyType ==
    \A ix \in AccIndexes :
        LET k == ix[1]
            j == ix[2] IN
        ( /\ Reached(k, j)
          /\ Registered(k)
          /\ ~SkippedAt(k, j)
          /\ AccAt(k, j).type \in ScalarTypes \cup CompositeTypes
          /\ KeyAt(k, j) \in quirks.raw_accessibles ) =>
            /\ AttrsOf(KeyAt(k, j)) # {}
            /\ \A a \in AttrsOf(KeyAt(k, j)) :
                  a.io = "raw" /\ a.dtype = "String65536"

KnownTypes == ScalarTypes \cup CompositeTypes \cup {"command"}

\* the attribute datatype a scalar wire type is given
ScalarDatatype(type) ==
    CASE type \in {"double", "scaled"} -> "Float"
      [] type = "int"    -> "Int"
      [] type = "bool"   -> "Bool"
      [] type = "enum"   -> "Enum"
      [] type = "string" -> "String"
      [] type = "blob"   -> "Waveform"

\* C18: the mapper deals with every wire type and with command, and with
\* nothing else: an accessible that is not skipped and whose type is none
\* of double, scaled, int, bool, enum, string, blob, array, tuple, struct,
\* command makes the initialisation of its module fail with the SecopError
\* "Unsupported secop data type", which leaves SecopController.initialise()
\* with the module unregistered; a scalar type yields its attribute, a
\* command none, and no accessible of a known type raises that error.
C18_UnsupportedTypeFails ==
    /\ \A ix \in AccIndexes :
          LET k == ix[1]
              j == ix[2] IN
          (Reached(k, j) /\ ~SkippedAt(k, j)) =>
              IF AccAt(k, j).type \notin KnownTypes
              THEN /\ pc["init"] = "failed"
                   /\ initK = k
                   /\ err["init"] = Raise("SecopError", "Unsupported secop data type")
                   /\ ~Registered(k)
              ELSE Registered(k) =>
                      IF AccAt(k, j).type = "command"
                      THEN AttrsOf(KeyAt(k, j)) = {}
                      ELSE /\ Cardinality(AttrsOf(KeyAt(k, j))) = 1
                           /\ AccAt(k, j).type \in ScalarTypes =>
                                 \A a \in AttrsOf(KeyAt(k, j)) :
                                     /\ a.dtype = ScalarDatatype(AccAt(k, j).type)
                                     /\ a.io = "typed"
    /\ ( /\ pc["init"] = "failed"
         /\ initK >= 1
         /\ err["init"].what = "Unsupported secop data type" ) =>
            \E j \in 1..Len(Modules[initK].accessibles) :
                /\ ~SkippedAt(initK, j)
                /\ AccAt(initK, j).type \notin KnownTypes

C18_Witness ==
    /\ pc["init"] = "failed"
    /\ initK = 2
    /\ AccAt(2, 1).type = "weird"
    /\ ~SkippedAt(2, 1)
    /\ err["init"] = Raise("SecopError", "Unsupported secop data type")
    /\ RegisteredNames = <<"m1">>

\* the accessible of the description an attribute was made from
SourceAcc(a) ==
    CHOOSE acc \in { AccAt(ix[1], ix[2]) : ix \in { i \in AccIndexes :
                         KeyAt(i[1], i[2]) = <<a.module, a.accessible>> } } : TRUE

\* C19: a registered attribute, of any type, typed or raw, is read-only
\* exactly when the descriptor of its accessible has readonly true, and
\* read-write when readonly is false or absent; only read-write attributes
\* are ever written to the device.
C19_ReadonlyIffDeclared ==
    /\ \A a \in RegisteredAttrs :
          /\ a.access \in {"R", "RW"}
          /\ a.access = "R" <=> SourceAcc(a).readonly = "true"
    /\ pc["write"] = "change_wait" =>
          /\ AttrOf(target["write"]).access = "RW"
          /\ SourceAcc(AttrOf(target["write"])).readonly \in {"false", "absent"}

C19_Witness ==
    /\ pc["write"] = "change_wait"
    /\ AttrOf(target["write"]).io = "raw"
    /\ SourceAcc(AttrOf(target["write"])).readonly = "absent"
    /\ SourceAcc(AttrOf(target["write"])).type = "array"
    /\ \E a \in RegisteredAttrs : a.access = "R" /\ a.name = "y"

\* the description text of the accessible an attribute was made from, empty
\* when the descriptor has none
FullDescription(a) ==
    IF SourceAcc(a).has_description THEN SourceAcc(a).description ELSE <<>>

\* C20: when max_description_length is a number N, the description of every
\* registered attribute is the first N characters of the description of
\* its accessible: at most N long, and the whole text when that is at most
\* N long; when max_description_length is None it is the whole text; an
\* accessible without a description gets the empty string.
C20_DescriptionTruncated ==
    \A a \in RegisteredAttrs :
        /\ Len(a.description) <= Len(FullDescription(a))
        /\ \A i \in 1..Len(a.description) : a.description[i] = FullDescription(a)[i]
        /\ IF quirks.max_description_length = None
           THEN Len(a.description) = Len(FullDescription(a))
           ELSE LET N == quirks.max_description_length[1] IN
                /\ Len(a.description) <= N
                /\ Len(FullDescription(a)) <= N => a.description = FullDescription(a)
                /\ Len(FullDescription(a)) > N => Len(a.description) = N
        /\ ~SourceAcc(a).has_description => a.description = <<>>

C20_Witness ==
    /\ pc["init"] = "done"
    /\ quirks.max_description_length = Some(MaxDescLimit)
    /\ \E a \in RegisteredAttrs :
          /\ Len(FullDescription(a)) > MaxDescLimit
          /\ Len(a.description) = MaxDescLimit
          /\ a.io = "raw"

\* ---- C21
RoundTripTypes ==
    { "int", "bool", "double", "string", "enum", "scaled", "blob", "array", "tuple" }

\* the value decoded is the value written: the same value, or for a scaled
\* parameter a number no further than one scale unit from it
SameValue(decoded, written, datainfo) ==
    IF datainfo.type = "scaled"
    THEN /\ decoded.py = "number"
         /\ decoded.num - written.num <= datainfo.scale[1]
         /\ written.num - decoded.num <= datainfo.scale[1]
    ELSE decoded = written

\* C21: for every datainfo of a type other than struct (int, bool, double,
\* string, enum, scaled, blob, array, tuple) and every value v of the type,
\* encode(v, datainfo) returns a text and decode of that text under the
\* same datainfo returns v again (within the rounding tolerance for a scaled
\* value); encode of a struct value raises.
C21_RoundTrip ==
    fn.stage # "idle" /\ fn.kind = "written" =>
        /\ ( fn.stage \in {"encoded", "decoded"}
             /\ fn.datainfo.type \in RoundTripTypes ) =>
                fn.encoded.err = NoError
        /\ ( fn.stage = "encoded" /\ fn.datainfo.type = "struct" ) =>
                fn.encoded.err # NoError
        /\ ( fn.stage = "decoded" /\ fn.datainfo.type \in RoundTripTypes ) =>
                /\ fn.decoded.err = NoError
                /\ SameValue(fn.decoded.value, fn.obj, fn.datainfo)

\* ---- C22
Abs(n) == IF n < 0 THEN 0 - n ELSE n

\* C22: for a scaled parameter of scale s, a raw integer r read from the
\* wire is reported as r * s; a written value v is transmitted as the
\* integer nearest to v / s; and the transmitted integer, reported back by
\* the node, decodes to a value within one scale unit of v.
C22_Scaled ==
    ( fn.stage # "idle" /\ fn.datainfo.type = "scaled" ) =>
        LET s == fn.datainfo.scale[1] IN
        /\ ( fn.stage = "done" /\ fn.kind = "received" ) =>
              /\ fn.result.err = NoError
              /\ fn.result.value = PyNum(fn.text.doc.jarr[1].jnum * s)
        /\ ( fn.stage \in {"encoded", "readback"} ) =>
              /\ fn.encoded.err = NoError
              /\ fn.encoded.value.json = "number"
              /\ 2 * Abs(fn.encoded.value.jnum * s - fn.obj.num) <= s
        /\ ( fn.stage = "readback" ) =>
              /\ fn.result.err = NoError
              /\ fn.result.value = PyNum(fn.encoded.value.jnum * s)
              /\ Abs(fn.result.value.num - fn.obj.num) <= s

C22_Witness ==
    /\ fn.stage = "readback"
    /\ fn.datainfo.type = "scaled"
    /\ fn.datainfo.scale = Some(47)
    /\ fn.obj = PyNum(24)
    /\ fn.encoded.value = JNum(1)
    /\ fn.result.value = PyNum(47)

\* ---- C23
\* the characters between "%." and "f" of a format string of the shape
\* "%.<N>f", N written in decimal digits
PrecDigits(fmt_str) == SubSeq(fmt_str[1], 3, Len(fmt_str[1]) - 1)

HasPrecShape(fmt_str) ==
    /\ fmt_str # None
    /\ Len(fmt_str[1]) >= 4
    /\ SubSeq(fmt_str[1], 1, 2) = << "%", "." >>
    /\ fmt_str[1][Len(fmt_str[1])] = "f"
    /\ \A i \in 1..Len(PrecDigits(fmt_str)) :
          PrecDigits(fmt_str)[i] \in { DecimalDigits[j] : j \in 1..10 }

\* C23: format_string_to_prec never raises; it returns N for a format
\* string "%.<N>f", N a non-negative decimal integer, and None for None and
\* for every other string.
C23_FormatPrecTotal ==
    ( fn.stage = "done" /\ fn.kind = "fmtstr" ) =>
        /\ fn.result.err = NoError
        /\ HasPrecShape(fn.fmtstr) =>
              fn.result.value = PyNum(DigitsValue(PrecDigits(fn.fmtstr)))
        /\ ~HasPrecShape(fn.fmtstr) => fn.result.value = PyNone

\* ---- C24
\* C24: a double or scaled accessible is registered as a floating attribute
\* whose display precision is N when datainfo.fmtstr is "%.<N>f", for every
\* N >= 0, and 6 when fmtstr is absent or of any other shape; with a scale,
\* the registered bounds are the declared min and max times the scale, and
\* an absent bound stays absent.
C24_PrecisionAndBounds ==
    ( fn.stage = "done" /\ fn.kind = "accessible"
      /\ fn.acc.type \in {"double", "scaled"} ) =>
        /\ fn.registered.err = NoError
        /\ Len(fn.registered.attrs) = 1
        /\ LET a == fn.registered.attrs[1] IN
           /\ a.dtype = "Float"
           /\ a.prec = IF HasPrecShape(fn.acc.fmtstr)
                       THEN DigitsValue(PrecDigits(fn.acc.fmtstr))
                       ELSE 6
           /\ a.min_alarm = IF fn.acc.min = None THEN None
                            ELSE IF fn.acc.scale = None THEN fn.acc.min
                            ELSE Some(fn.acc.min[1] * fn.acc.scale[1])
           /\ a.max_alarm = IF fn.acc.max = None THEN None
                            ELSE IF fn.acc.scale = None THEN fn.acc.max
                            ELSE Some(fn.acc.max[1] * fn.acc.scale[1])

\* ---- C25
\* C25: secop_dtype_to_numpy_dtype maps a member datainfo of type int to a
\* 32-bit integer, double to a 64-bit float, bool to uint8, enum to a 32-bit
\* integer and string to a string of maxchars characters, 65536 when
\* maxchars is absent; for every other type (scaled, blob, a nested array,
\* tuple or struct, or an unknown type) it raises SecopError "Cannot handle
\* SECoP dtype ... within array/struct/tuple".
C25_NumpyDtype ==
    ( fn.stage = "done" /\ fn.kind = "member" ) =>
        LET ty == fn.member.type IN
        /\ ty = "int"    => fn.result = Ok(NpDtype("int32"))
        /\ ty = "double" => fn.result = Ok(NpDtype("float64"))
        /\ ty = "bool"   => fn.result = Ok(NpDtype("uint8"))
        /\ ty = "enum"   => fn.result = Ok(NpDtype("int32"))
        /\ ty = "string" =>
              fn.result = Ok(NpStr(IF fn.member.maxchars = None THEN 65536
                                   ELSE fn.member.maxchars[1]))
        /\ ty \notin {"int", "double", "bool", "enum", "string"} =>
              fn.result.err = Raise("SecopError",
                    "Cannot handle SECoP dtype within array/struct/tuple")

C25_Witness ==
    /\ fn.stage = "done"
    /\ fn.kind = "member"
    /\ fn.member = [ type |-> "string", maxchars |-> Some(16) ]
    /\ fn.result = Ok(NpStr(16))

\* ---- C26
CompositeKinds == { "array", "tuple", "struct" }

\* registration and decoding of the composites succeed only when every
\* member type is among the supported ones
MembersRestrictedTo(supported) ==
    /\ ( fn.stage = "done" /\ fn.kind = "accessible"
         /\ fn.acc.type \in CompositeKinds ) =>
            IF \A i \in 1..Len(fn.acc.members) : fn.acc.members[i] \in supported
            THEN /\ fn.registered.err = NoError
                 /\ Len(fn.registered.attrs) = 1
            ELSE /\ fn.registered.err.type = "SecopError"
                 /\ fn.registered.attrs = <<>>
    /\ ( fn.stage = "done" /\ fn.kind = "received"
         /\ fn.datainfo.type \in CompositeKinds
         /\ \E i \in 1..Len(fn.datainfo.members) :
                fn.datainfo.members[i].type \notin supported ) =>
            fn.result.err # NoError

\* C26 as claimed: a non-raw array supports the element types double, int
\* and bool only; with any other element type (enum, string, scaled, blob, a
\* nested array, tuple or struct) registering the attribute fails and
\* decoding a value raises; the members of a tuple and of a struct are
\* restricted in the same way.
C26_ElementTypesAsClaimed == MembersRestrictedTo({ "double", "int", "bool" })

\* C26 as amended: the supported element and member types are double, int,
\* bool, enum and string; with any other (scaled, blob, a nested array,
\* tuple or struct, an unknown type) registering fails with SecopError and
\* decoding a value raises.
C26_ElementTypes == MembersRestrictedTo({ "double", "int", "bool", "enum", "string" })

C26_Witness ==
    /\ fn.stage = "done"
    /\ fn.kind = "accessible"
    /\ fn.acc.type = "array"
    /\ fn.acc.members = << "scaled" >>
    /\ fn.registered.err.type = "SecopError"

\* ---- C27
InitMoves == pc'["init"] # pc["init"]

\* C27: the handshake aborts at the first failing step: when connect()
\* fails no query is sent, when the identification check fails neither
\* deactivate nor describe is sent, when deactivate fails describe is not
\* sent; the failure reaches the caller of initialise(), and after it
\* initialise() takes no further step and sends nothing.
C27_AbortsAtFirstFailure ==
    [][ /\ ( pc["init"] = "connect" /\ ~peerUp /\ InitMoves ) =>
              /\ pc'["init"] = "failed"
              /\ err'["init"] \in ConnectErrors
              /\ log' = << "connect" >>
              /\ pending' = <<>>
        /\ ( pc["init"] = "idn_wait" /\ InitMoves
             /\ ( ~req["init"].live \/ CheckIdn(Response) # NoError ) ) =>
              /\ pc'["init"] = "failed"
              /\ err'["init"] # NoError
              /\ log' = << "connect", "*IDN?" >>
        /\ ( pc["init"] = "deact_wait" /\ InitMoves /\ ~req["init"].live ) =>
              /\ pc'["init"] = "failed"
              /\ err'["init"].type = "ConnectionError"
              /\ log' = << "connect", "*IDN?", "deactivate" >>
        /\ pc["init"] = "failed" =>
              /\ pc'["init"] = "failed"
              /\ err'["init"] = err["init"]
              /\ log' = log
              /\ Len(pending') <= Len(pending)
              /\ lock' = lock ]_vars

C27_Witness ==
    /\ pc["init"] = "failed"
    /\ err["init"] = Raise("ConnectionError", "deact_wait")
    /\ log = << "connect", "*IDN?", "deactivate" >>
    /\ peerUp

\* the probe has connected again and its deactivate has not returned yet
NotYetDeactivated == pc["ping"] \in {"deact_send", "deact_wait"}

\* C28: on a connection the probe has established again, deactivate is
\* answered before any read or change request is written: no attribute IO
\* request goes out on the open connection between the probe's connect()
\* and the return of its deactivate(), and a probe whose reconnect attempt
\* failed does not leave an open connection behind.
C28_DeactivatedBeforeIo ==
    /\ [][ \A t \in IoTasks :
              ( connOpen /\ NotYetDeactivated /\ req'[t] # req[t] )
                  => ~req'[t].live ]_vars
    /\ []( ( pc["init"] = "done" /\ pc["ping"] = "idle" /\ connOpen )
              => outcome["ping"] # "reconnect_failed" )

\* C29: a write through the typed IO puts at most one line on the
\* connection. send() writes a line only for a value that encode accepts
\* under the attribute's datainfo, and then exactly the one line
\* "change <module>:<accessible> <encoded value>"; when encode raises, nothing
\* is written and send() returns normally; when the reply does not start
\* with "changed <module>:<accessible> ", send() returns with the failure
\* logged and writes nothing more.

\* the number of lines of the write task among the lines on the socket
WrittenByWrite(lines) ==
    Len(SelectSeq(lines, LAMBDA r : r.by = "write"))

C29_TypedWriteOneLine ==
    [][ /\ ( /\ pc["write"] = "idle"
             /\ pc'["write"] = "change_wait"
             /\ AttrOf(target'["write"]).io = "typed" ) =>
                LET a == AttrOf(target'["write"]) IN
                \E v \in WriteValuesFor(a) :
                    /\ encode(v, a.info).err = NoError
                    /\ req'["write"].line
                          = <<"change", SP, a.module, ":", a.accessible, SP,
                              JsonText(encode(v, a.info).value), NL>>
                    /\ connOpen =>
                          pending' = Append(pending, [ by   |-> "write",
                                                       line |-> req'["write"].line ])
        /\ ( pc["write"] = "idle" /\ pc'["write"] = "idle" ) =>
                /\ WrittenByWrite(pending') <= WrittenByWrite(pending)
                /\ req'["write"] = req["write"]
                /\ err'["write"] = NoError
                /\ outcome'["write"] # outcome["write"] => outcome'["write"] = "logged"
        /\ ( pc["write"] = "change_wait" /\ pc'["write"] # "change_wait" ) =>
                LET k == target["write"] IN
                /\ pc'["write"] = "idle"
                /\ WrittenByWrite(pending') <= WrittenByWrite(pending)
                /\ req'["write"] = NoReq
                /\ err'["write"] = NoError
                /\ req["write"].live =>
                      IF StartsWith(Strip(Head(replies).line),
                                    <<"changed", SP, k[1], ":", k[2], SP>>)
                      THEN outcome'["write"] = "sent"
                      ELSE outcome'["write"] = "logged"
        /\ WrittenByWrite(pending') <= WrittenByWrite(pending) + 1 ]_vars

\* send() has returned from a write to a struct attribute, whose value
\* encode rejects: the failure is logged and no change request was written
C29_Witness ==
    /\ pc["write"] = "idle"
    /\ outcome["write"] = "logged"
    /\ "change" \notin sentAfterInit
    /\ pending = <<>>
    /\ req["write"] = NoReq
    /\ err["write"] = NoError
    /\ \A a \in Writable : a.io = "typed" /\ a.datainfo = "struct"
    /\ Writable # {}

\* the indexes of the accessibles of module k
AccsOf(k) == { j \in 1..Len(Modules[k].accessibles) : TRUE }

\* the names of the accessibles of module k that are to become attributes
AttributeNames(k) ==
    { AccAt(k, j).name : j \in { i \in AccsOf(k) :
                                    /\ ~SkippedAt(k, i)
                                    /\ AccAt(k, i).type # "command" } }

\* C30: after a successful initialise(), every module that is not skipped
\* has one sub-controller, and the names of its attributes are exactly the
\* names of the module's accessibles that are neither listed in
\* skip_accessibles nor of type command: a command yields no attribute and
\* no error, every other accessible yields one attribute under its own
\* name, and the attribute's io reference holds the module's name, the
\* accessible's name and quirks.update_period.
C30_AttributesPerModule ==
    pc["init"] = "done" =>
        \A k \in 1..Len(Modules) :
            Modules[k].name \notin quirks.skip_modules =>
                /\ Cardinality(SubsNamed(Modules[k].name)) = 1
                /\ \A sub \in SubsNamed(Modules[k].name) :
                      /\ { sub.attrs[i].name : i \in 1..Len(sub.attrs) }
                            = AttributeNames(k)
                      /\ Len(sub.attrs) = Cardinality(AttributeNames(k))
                      /\ \A i \in 1..Len(sub.attrs) :
                            /\ sub.attrs[i].module = Modules[k].name
                            /\ sub.attrs[i].accessible = sub.attrs[i].name
                            /\ sub.attrs[i].period = quirks.update_period

\* initialise() has returned for a node with a module that has a command
\* accessible next to none, and another module with an attribute polled at
\* a period other than the default
C30_Witness ==
    /\ pc["init"] = "done"
    /\ Len(subs) = 2
    /\ subs[1].attrs # <<>>
    /\ subs[2].attrs = <<>>
    /\ AccAt(2, 1).type = "command"
    /\ ~SkippedAt(2, 1)
    /\ quirks.update_period # DefaultQuirks.update_period
    /\ subs[1].attrs[1].period = quirks.update_period

====
